---- MODULE Spec2Model ----
(***************************************************************************)
(* Model of the FIT workout parser of OpenConnectCompanion                 *)
(* (src-tauri/src/fit_parser.rs): the typed-value coercions, the single    *)
(* pass of parse_fit_file over the decoded message stream, the elevation   *)
(* calculator and the chart downsampling.                                  *)
(*                                                                         *)
(* Number representations (TLC integers are 32 bits wide):                 *)
(*  - an i64 / u32 machine integer is a record [hi, lo] standing for       *)
(*    hi * 65536 + lo with lo in 0..65535 (hi carries the sign);           *)
(*  - an f64 of the sensor/summary fields is an integer count of halves    *)
(*    (3600.0 is 7200, 95.5 is 191); every value used is a small dyadic    *)
(*    number, so the f64 arithmetic of the source is exact on it;          *)
(*  - an f64 of degrees is the exact product semicircles * 180 / 2^31 as   *)
(*    a fixed-point record [i, f] standing for (i + f / 32768) / 16384;    *)
(*  - a DateTime is [days, secs, offset]: days and seconds of the UTC      *)
(*    instant since 1970-01-01 and the zone offset in seconds.             *)
(***************************************************************************)
EXTENDS Integers, Sequences, FiniteSets, TLC

\* ---------------------------------------------------------------- Option<T>
None == <<>>
Some(x) == <<x>>
IsSome(o) == o /= <<>>
IsNone(o) == o = <<>>
Unwrap(o) == o[1]

\* ------------------------------------------------------- machine integers
\* The i64 with value n (n a TLC integer).
W(n) == [hi |-> n \div 65536, lo |-> n % 65536]
\* The value of a wide integer that fits 32 bits.
WVal(w) == w.hi * 65536 + w.lo
\* `v as i32`: keep the low 32 bits, read as two's complement.
AsI32(w) == (((w.hi + 32768) % 65536) - 32768) * 65536 + w.lo
\* `v as u32`: keep the low 32 bits, read as unsigned.
AsU32(w) == [hi |-> w.hi % 65536, lo |-> w.lo]

\* ------------------------------------------------------------ f64 (halves)
\* `t as i64` of a float: truncation toward zero.
F64ToI64(t) == IF t >= 0 THEN W(t \div 2) ELSE W(-((-t) \div 2))
Abs(x) == IF x < 0 THEN -x ELSE x

\* ------------------------------------------------------------- DateTime
\* FIT timestamp epoch is December 31, 1989, 00:00:00 UTC
FIT_EPOCH_OFFSET == 631065600

\* timestamp as i64 + FIT_EPOCH_OFFSET as a UTC instant.
\* timestamp is a u32 [hi, lo]; 65536 = 64 * 1024 and 86400 = 64 * 1350, so
\* the seconds since the UNIX epoch are 64 * a + lo % 64 with a as below.
EpochInstant(timestamp) ==
    LET a == 1024 * timestamp.hi + timestamp.lo \div 64 + FIT_EPOCH_OFFSET \div 64
    IN  [days |-> a \div 1350,
         secs |-> 64 * (a % 1350) + (timestamp.lo % 64),
         offset |-> 0]

\* timestamp_opt accepting only seconds that fit a signed 32-bit time.
timestamp_opt_32bit(timestamp) ==
    LET dt == EpochInstant(timestamp)
    IN  IF dt.days >= 0 /\ dt.days < 24855 THEN Some(dt) ELSE None

\* Utc.timestamp_opt(timestamp as i64 + FIT_EPOCH_OFFSET, 0): the instant, or
\* none outside the dates chrono represents (-262143-01-01 .. 262142-12-31).
timestamp_opt(timestamp) ==
    LET dt == EpochInstant(timestamp)
    IN  IF dt.days >= -96465293 /\ dt.days <= 95026236 THEN Some(dt) ELSE None

\* Utc.timestamp_opt(..).unwrap(); the unwrap of none is a panic, which the
\* arms of parse_fit_file test with UnwrapPanics before they convert.
fit_timestamp_to_datetime(timestamp) == Unwrap(timestamp_opt(timestamp))

\* dt.with_timezone(&Utc): the same instant, zone offset zero.
with_timezone_utc(dt) == [days |-> dt.days, secs |-> dt.secs, offset |-> 0]

Pad2(n) == IF n < 10 THEN "0" \o ToString(n) ELSE ToString(n)
Pad4(n) == IF n < 10 THEN "000" \o ToString(n)
           ELSE IF n < 100 THEN "00" \o ToString(n)
           ELSE IF n < 1000 THEN "0" \o ToString(n)
           ELSE ToString(n)

\* DateTime<Utc>::to_rfc3339: "YYYY-MM-DDTHH:MM:SS+00:00" of the instant
\* (proleptic Gregorian calendar, days counted from 1970-01-01).
to_rfc3339(dt) ==
    LET local == dt.secs + dt.offset
        day   == dt.days + local \div 86400
        sod   == local % 86400
        z     == day + 719468
        era   == z \div 146097
        doe   == z % 146097
        yoe   == (doe - doe \div 1460 + doe \div 36524 - doe \div 146096) \div 365
        doy   == doe - (365 * yoe + yoe \div 4 - yoe \div 100)
        mp    == (5 * doy + 2) \div 153
        d     == doy - (153 * mp + 2) \div 5 + 1
        m     == IF mp < 10 THEN mp + 3 ELSE mp - 9
        y     == yoe + era * 400 + (IF m <= 2 THEN 1 ELSE 0)
        oh    == Abs(dt.offset) \div 3600
        om    == (Abs(dt.offset) % 3600) \div 60
    IN  Pad4(y) \o "-" \o Pad2(m) \o "-" \o Pad2(d) \o "T"
        \o Pad2(sod \div 3600) \o ":" \o Pad2((sod % 3600) \div 60) \o ":"
        \o Pad2(sod % 60)
        \o (IF dt.offset < 0 THEN "-" ELSE "+") \o Pad2(oh) \o ":" \o Pad2(om)

\* ---------------------------------------------------------------- degrees
\* semicircles as f64 * (180.0 / 2_147_483_648.0), exactly: with
\* semicircles = a * 32768 + b the product is (45 * a + 45 * b / 32768) / 16384.
semicircles_to_degrees(semicircles) ==
    LET a == semicircles \div 32768
        b == semicircles % 32768
    IN  [i |-> 45 * a + (45 * b) \div 32768, f |-> (45 * b) % 32768]

\* lat_val.abs() <= bound, bound a whole number of degrees.
DegAbsLe(deg, bound) ==
    /\ deg.i >= -(bound * 16384)
    /\ \/ deg.i < bound * 16384
       \/ deg.i = bound * 16384 /\ deg.f = 0

\* ------------------------------------------------------------ fitparser Value
IntTags == {"SInt8", "UInt8", "SInt16", "UInt16", "SInt32", "UInt32", "SInt64", "UInt64"}
FloatTags == {"Float32", "Float64"}

UInt8(n) == [tag |-> "UInt8", v |-> W(n)]
UInt16(n) == [tag |-> "UInt16", v |-> W(n)]
SInt32(n) == [tag |-> "SInt32", v |-> W(n)]
UInt32(n) == [tag |-> "UInt32", v |-> W(n)]
Float32(h) == [tag |-> "Float32", v |-> h]
Float64(h) == [tag |-> "Float64", v |-> h]
String(s) == [tag |-> "String", v |-> s]
Timestamp(dt) == [tag |-> "Timestamp", v |-> dt]
Byte(n) == [tag |-> "Byte", v |-> W(n)]

\* record.fields().iter().find(|f| f.name() == field_name).map(|f| f.value())
RECURSIVE FindField(_, _, _)
FindField(fields, field_name, k) ==
    IF k > Len(fields) THEN None
    ELSE IF fields[k].name = field_name THEN Some(fields[k].value)
    ELSE FindField(fields, field_name, k + 1)

get_field_value(record, field_name) == FindField(record.fields, field_name, 1)

value_to_i64(value) ==
    IF value.tag \in IntTags THEN Some(value.v) ELSE None

value_to_f64(value) ==
    IF value.tag \in FloatTags THEN Some(value.v)
    ELSE IF value.tag \in IntTags THEN Some(WVal(value.v) * 2)
    ELSE None

\* value_to_timestamp(value) panics in fit_timestamp_to_datetime.
TimestampPanics(value) ==
    /\ value.tag \in {"UInt32", "SInt32"}
    /\ IsNone(timestamp_opt(AsU32(value.v)))

\* value_to_timestamp taking every integer variant as device seconds.
value_to_timestamp_any_integer(value) ==
    CASE value.tag = "Timestamp" -> Some(with_timezone_utc(value.v))
      [] value.tag \in IntTags -> Some(fit_timestamp_to_datetime(AsU32(value.v)))
      [] OTHER -> None

value_to_timestamp(value) ==
    CASE value.tag = "Timestamp" -> Some(with_timezone_utc(value.v))
      [] value.tag = "UInt32" -> Some(fit_timestamp_to_datetime(value.v))
      [] value.tag = "SInt32" -> Some(fit_timestamp_to_datetime(AsU32(value.v)))
      [] OTHER -> None

SportNames == <<"generic", "running", "cycling", "transition", "fitness_equipment",
    "swimming", "basketball", "soccer", "tennis", "american_football", "training",
    "walking", "cross_country_skiing", "alpine_skiing", "snowboarding", "rowing",
    "mountaineering", "hiking", "multisport", "paddling", "strength_training">>

\* sport_to_string with the table ending one code early.
sport_to_string_below_20(sport_num) ==
    IF sport_num < 20 THEN SportNames[sport_num + 1]
    ELSE "sport_" \o ToString(sport_num)

sport_to_string(sport_num) ==
    IF sport_num <= 20 THEN SportNames[sport_num + 1]
    ELSE "sport_" \o ToString(sport_num)

\* str::to_lowercase on the strings the modelled devices emit.
to_lowercase(s) ==
    CASE s = "Running" -> "running"
      [] s = "HIKING" -> "hiking"
      [] s = "Walking" -> "walking"
      [] s = "E-Biking" -> "e-biking"
      [] OTHER -> s

\* The `match val { String(s) => .., UInt8(n) => .., _ => {} }` of the sport,
\* session and activity arms: the workout type a value decodes to, if any.
decode_sport(val) ==
    CASE val.tag = "String" -> Some(to_lowercase(val.v))
      [] val.tag = "UInt8" -> Some(sport_to_string(WVal(val.v)))
      [] OTHER -> None

\* ------------------------------------------------------------- chart data
max_points == 1000

EmptyChart == [timestamps |-> <<>>, heart_rate |-> <<>>, power |-> <<>>,
               cadence |-> <<>>, speed |-> <<>>, altitude |-> <<>>]

\* point.timestamp.clone().unwrap_or_default()
unwrap_or_default(o) == IF IsSome(o) THEN Unwrap(o) ELSE ""

\* PushPoint with the altitude array fed from the speed field.
PushPointSpeedAsAltitude(chart, point) ==
    [timestamps |-> Append(chart.timestamps, unwrap_or_default(point.timestamp)),
     heart_rate |-> Append(chart.heart_rate, point.heart_rate),
     power      |-> Append(chart.power, point.power),
     cadence    |-> Append(chart.cadence, point.cadence),
     speed      |-> Append(chart.speed, point.speed),
     altitude   |-> Append(chart.altitude, point.speed)]

\* PushPoint that pushes a timestamp only when the sample has one.
PushPointSkipAbsent(chart, point) ==
    [timestamps |-> IF IsSome(point.timestamp)
                    THEN Append(chart.timestamps, Unwrap(point.timestamp))
                    ELSE chart.timestamps,
     heart_rate |-> Append(chart.heart_rate, point.heart_rate),
     power      |-> Append(chart.power, point.power),
     cadence    |-> Append(chart.cadence, point.cadence),
     speed      |-> Append(chart.speed, point.speed),
     altitude   |-> Append(chart.altitude, point.altitude)]

\* The six pushes of one kept sample.
PushPoint(chart, point) ==
    [timestamps |-> Append(chart.timestamps, unwrap_or_default(point.timestamp)),
     heart_rate |-> Append(chart.heart_rate, point.heart_rate),
     power      |-> Append(chart.power, point.power),
     cadence    |-> Append(chart.cadence, point.cadence),
     speed      |-> Append(chart.speed, point.speed),
     altitude   |-> Append(chart.altitude, point.altitude)]

\* if i % step == 0 { ...push... }   (i is the zero-based index)
ChartLoopBody(chart, sensor, step, i) ==
    IF i % step = 0 THEN PushPoint(chart, sensor[i + 1]) ELSE chart

\* The pushes of a run of iterations followed by those of the next run.
ChartConcat(c1, c2) ==
    [timestamps |-> c1.timestamps \o c2.timestamps,
     heart_rate |-> c1.heart_rate \o c2.heart_rate,
     power      |-> c1.power \o c2.power,
     cadence    |-> c1.cadence \o c2.cadence,
     speed      |-> c1.speed \o c2.speed,
     altitude   |-> c1.altitude \o c2.altitude]

\* for (i, point) in sensor_data.iter().enumerate(): what the iterations
\* lo..hi-1 push, in order.  The range is split in halves only to keep the
\* evaluation depth logarithmic; each iteration is ChartLoopBody.
RECURSIVE ChartLoop(_, _, _, _)
ChartLoop(sensor, step, lo, hi) ==
    IF lo >= hi THEN EmptyChart
    ELSE IF hi = lo + 1 THEN ChartLoopBody(EmptyChart, sensor, step, lo)
    ELSE LET mid == (lo + hi) \div 2
         IN  ChartConcat(ChartLoop(sensor, step, lo, mid), ChartLoop(sensor, step, mid, hi))

\* chart_step rounding the stride up instead of down.
chart_step_ceil(len) ==
    IF len > max_points THEN (len + max_points - 1) \div max_points ELSE 1

chart_step(len) == IF len > max_points THEN len \div max_points ELSE 1

build_chart_data(sensor) ==
    ChartLoop(sensor, chart_step(Len(sensor)), 0, Len(sensor))

\* ------------------------------------------------------ elevation changes
\* for window in altitudes.windows(2): the windows starting at k, k+1, ...
\* acc is <<gain, loss>>; threshold = 2.0 is 4 halves.
\* ElevationLoop counting a difference of exactly the threshold.
RECURSIVE ElevationLoopInclusive(_, _, _)
ElevationLoopInclusive(alts, k, acc) ==
    IF k + 1 > Len(alts) THEN acc
    ELSE LET diff == alts[k + 1] - alts[k]
         IN  ElevationLoopInclusive(alts, k + 1,
                 IF diff >= 4 THEN <<acc[1] + diff, acc[2]>>
                 ELSE IF diff <= -4 THEN <<acc[1], acc[2] + Abs(diff)>>
                 ELSE acc)

\* ElevationLoop keeping only the largest drop as the loss.
RECURSIVE ElevationLoopLargestDrop(_, _, _)
ElevationLoopLargestDrop(alts, k, acc) ==
    IF k + 1 > Len(alts) THEN acc
    ELSE LET diff == alts[k + 1] - alts[k]
         IN  ElevationLoopLargestDrop(alts, k + 1,
                 IF diff > 4 THEN <<acc[1] + diff, acc[2]>>
                 ELSE IF diff < -4
                      THEN <<acc[1], IF Abs(diff) > acc[2] THEN Abs(diff) ELSE acc[2]>>
                 ELSE acc)

RECURSIVE ElevationLoop(_, _, _)
ElevationLoop(alts, k, acc) ==
    IF k + 1 > Len(alts) THEN acc
    ELSE LET diff == alts[k + 1] - alts[k]
         IN  ElevationLoop(alts, k + 1,
                 IF diff > 4 THEN <<acc[1] + diff, acc[2]>>
                 ELSE IF diff < -4 THEN <<acc[1], acc[2] + Abs(diff)>>
                 ELSE acc)

\* calculate_elevation_changes without the early return for short input.
calculate_elevation_changes_no_guard(alts) ==
    LET r == ElevationLoop(alts, 1, <<0, 0>>)
    IN  <<Some(r[1]), Some(r[2])>>

calculate_elevation_changes(alts) ==
    IF Len(alts) < 2 THEN <<None, None>>
    ELSE LET r == ElevationLoop(alts, 1, <<0, 0>>)
         IN  <<Some(r[1]), Some(r[2])>>

\* ------------------------------------------------------------ session arm
\* get_field_value(record, name).and_then(|v| value_to_i64(v)), and likewise
\* for the other coercions.
FieldI64(record, name) ==
    LET val == get_field_value(record, name)
    IN  IF IsSome(val) THEN value_to_i64(Unwrap(val)) ELSE None

FieldF64(record, name) ==
    LET val == get_field_value(record, name)
    IN  IF IsSome(val) THEN value_to_f64(Unwrap(val)) ELSE None

FieldTimestamp(record, name) ==
    LET val == get_field_value(record, name)
    IN  IF IsSome(val) THEN value_to_timestamp(Unwrap(val)) ELSE None

FieldSport(record, name) ==
    LET val == get_field_value(record, name)
    IN  IF IsSome(val) THEN decode_sport(Unwrap(val)) ELSE None

\* value_to_f64(val) followed by `t as i64`.
FieldSeconds(record, name) ==
    LET t == FieldF64(record, name)
    IN  IF IsSome(t) THEN Some(F64ToI64(Unwrap(t))) ELSE None

HasField(record, name) == IsSome(get_field_value(record, name))

\* Reading the field as a timestamp panics.
UnwrapPanics(record, name) ==
    LET val == get_field_value(record, name)
    IN  IsSome(val) /\ TimestampPanics(Unwrap(val))

\* if let Some(val) = get_field_value(record, name) {
\*     if let Some(x) = conv(val) { field = Some(x); } }
\* with coerced = conv(val) when the field is there.
SetIfSome(old, coerced) == IF IsSome(coerced) THEN coerced ELSE old

\* if let Some(val) = get_field_value(record, name) { field = conv(val); }
Assign(old, present, coerced) == IF present THEN coerced ELSE old

\* if field.is_none() { if let Some(val) = get_field_value(record, name) {
\*     match val { String | UInt8 => field = Some(..), _ => {} } } }
SportIfNone(old, record, name) ==
    IF IsNone(old) THEN SetIfSome(old, FieldSport(record, name)) ELSE old

\* SessionStartTime guarded like the lap arm's start time.
SessionStartTimeIfNone(old, record) ==
    IF IsNone(old) THEN SetIfSome(old, FieldTimestamp(record, "start_time")) ELSE old

SessionStartTime(old, record) == SetIfSome(old, FieldTimestamp(record, "start_time"))

\* SessionDuration reading total_timer_time before total_elapsed_time.
SessionDurationTimerFirst(old, record) ==
    LET timer == SetIfSome(old, FieldSeconds(record, "total_timer_time"))
    IN  IF IsNone(timer)
        THEN SetIfSome(timer, FieldSeconds(record, "total_elapsed_time"))
        ELSE timer

SessionDuration(old, record) ==
    LET elapsed == SetIfSome(old, FieldSeconds(record, "total_elapsed_time"))
    IN  IF IsNone(elapsed)
        THEN SetIfSome(elapsed, FieldSeconds(record, "total_timer_time"))
        ELSE elapsed

AssignI64(old, record, name) == Assign(old, HasField(record, name), FieldI64(record, name))

AssignF64(old, record, name) == Assign(old, HasField(record, name), FieldF64(record, name))

\* SpeedWithEnhanced choosing by the presence of the plain field, as the
\* record arm does.
SpeedByPresence(old, record, plain, enhanced) ==
    IF HasField(record, plain) THEN AssignF64(old, record, plain)
    ELSE AssignF64(old, record, enhanced)

\* field = value_to_f64(plain); if field.is_none() { field = value_to_f64(enhanced) }
SpeedWithEnhanced(old, record, plain, enhanced) ==
    LET regular == AssignF64(old, record, plain)
    IN  IF IsNone(regular) THEN AssignF64(regular, record, enhanced) ELSE regular

LapStartTime(old, record) ==
    IF IsNone(old) THEN SetIfSome(old, FieldTimestamp(record, "start_time")) ELSE old

\* ------------------------------------------------------------- record arm
\* get_field_value(record, plain).or_else(|| get_field_value(record, enhanced))
\*     .and_then(|v| value_to_f64(v))
PlainOrEnhanced(record, plain, enhanced) ==
    IF HasField(record, plain) THEN FieldF64(record, plain)
    ELSE FieldF64(record, enhanced)

\* .and_then(|v| value_to_timestamp(v)).map(|ts| ts.to_rfc3339())
RecordTimestamp(record) ==
    LET ts == FieldTimestamp(record, "timestamp")
    IN  IF IsSome(ts) THEN Some(to_rfc3339(Unwrap(ts))) ELSE None

\* RecordCoordinate clamping the integer to the i32 range instead of wrapping.
RecordCoordinateSaturating(record, name) ==
    LET v == FieldI64(record, name)
    IN  IF IsNone(v) THEN None
        ELSE IF Unwrap(v).hi > 32767 THEN Some(semicircles_to_degrees(2147483647))
        ELSE IF Unwrap(v).hi < -32768 THEN Some(semicircles_to_degrees(-2147483647 - 1))
        ELSE Some(semicircles_to_degrees(AsI32(Unwrap(v))))

\* .and_then(|v| value_to_i64(v)).map(|v| semicircles_to_degrees(v as i32))
RecordCoordinate(record, name) ==
    LET v == FieldI64(record, name)
    IN  IF IsSome(v) THEN Some(semicircles_to_degrees(AsI32(Unwrap(v)))) ELSE None

RecordAltitude(record) == PlainOrEnhanced(record, "altitude", "enhanced_altitude")

RecordSpeed(record) == PlainOrEnhanced(record, "speed", "enhanced_speed")

\* RecordGps with the longitude bound applied to the latitude as well.
RecordGpsOneBound(gps, record) ==
    LET lat == RecordCoordinate(record, "position_lat")
        lon == RecordCoordinate(record, "position_long")
    IN  IF /\ IsSome(lat) /\ IsSome(lon)
           /\ DegAbsLe(Unwrap(lat), 180) /\ DegAbsLe(Unwrap(lon), 180)
        THEN Append(gps, [timestamp |-> RecordTimestamp(record),
                          lat |-> Unwrap(lat), lon |-> Unwrap(lon),
                          altitude |-> RecordAltitude(record)])
        ELSE gps

\* if let (Some(lat_val), Some(lon_val)) = (lat, lon) {
\*     if lat_val.abs() <= 90.0 && lon_val.abs() <= 180.0 { gps_data.push(..) } }
RecordGps(gps, record) ==
    LET lat == RecordCoordinate(record, "position_lat")
        lon == RecordCoordinate(record, "position_long")
    IN  IF /\ IsSome(lat) /\ IsSome(lon)
           /\ DegAbsLe(Unwrap(lat), 90) /\ DegAbsLe(Unwrap(lon), 180)
        THEN Append(gps, [timestamp |-> RecordTimestamp(record),
                          lat |-> Unwrap(lat), lon |-> Unwrap(lon),
                          altitude |-> RecordAltitude(record)])
        ELSE gps

\* if let Some(alt) = altitude { altitudes.push(alt); }
RecordAltitudes(alts, record) ==
    LET altitude == RecordAltitude(record)
    IN  IF IsSome(altitude) THEN Append(alts, Unwrap(altitude)) ELSE alts

RecordSensorPoint(record) ==
    [timestamp  |-> RecordTimestamp(record),
     heart_rate |-> FieldI64(record, "heart_rate"),
     power      |-> FieldI64(record, "power"),
     cadence    |-> FieldI64(record, "cadence"),
     speed      |-> RecordSpeed(record),
     distance   |-> FieldF64(record, "distance"),
     altitude   |-> RecordAltitude(record)]

\* RecordSensor putting the newest sample first.
RecordSensorNewestFirst(sensor, record) == <<RecordSensorPoint(record)>> \o sensor

RecordSensor(sensor, record) == Append(sensor, RecordSensorPoint(record))

\* ----------------------------------------------- decoded message streams
\* Bounds of the explored inputs.
MaxMsgs == 3
MaxParts == 2

\* One group of fields a device may put in a message of a kind.
Off(kind, name, value) ==
    [kind |-> kind, fields |-> <<[name |-> name, value |-> value]>>]
Off2(kind, n1, v1, n2, v2) ==
    [kind |-> kind, fields |-> <<[name |-> n1, value |-> v1], [name |-> n2, value |-> v2]>>]

\* A DateTime<Local> two hours east of UTC, as fitparser yields it.
LocalTime(days, secs) == [days |-> days, secs |-> secs, offset |-> 7200]

\* Two coercible values and one that is not, for one session field.
OneField(name, v1, v2, bad) ==
    <<Off("session", name, v1), Off("session", name, v2), Off("session", name, bad)>>

\* Every device profile: the field groups its messages are assembled from.
DeviceOfferings ==
    [type |-> <<Off("sport", "sport", String("Running")),
                Off("sport", "sport", UInt8(2)),
                Off("sport", "sport", UInt16(1)),
                Off("session", "sport", String("HIKING")),
                Off("session", "sport", UInt8(5)),
                Off("session", "sport", Float64(2)),
                Off("activity", "type", String("Walking")),
                Off("activity", "type", UInt8(99))>>,
     time |-> <<Off("session", "start_time", Timestamp(LocalTime(19800, 3600))),
                Off("session", "start_time", UInt32(1100000000)),
                Off("session", "start_time", String("08:00")),
                Off("lap", "start_time", UInt32(1100000060)),
                Off("lap", "start_time", SInt32(-1)),
                Off("lap", "start_time", UInt16(7))>>,
     end_time |-> OneField("timestamp", UInt32(1100003600),
                           Timestamp(LocalTime(19800, 7200)), Float64(3)),
     duration |-> <<Off("session", "total_elapsed_time", Float64(7201)),
                    Off("session", "total_elapsed_time", UInt32(1800)),
                    Off("session", "total_elapsed_time", String("1h")),
                    Off("session", "total_timer_time", Float64(7200))>>,
     distance |-> OneField("total_distance", Float64(20001), UInt32(400), String("10km")),
     calories |-> OneField("total_calories", UInt16(300), UInt16(450), Float64(600)),
     avg_hr |-> OneField("avg_heart_rate", UInt8(140), UInt8(150), Float32(290)),
     max_hr |-> OneField("max_heart_rate", UInt8(180), UInt8(190), String("max")),
     avg_pw |-> OneField("avg_power", UInt16(200), UInt16(250), Float64(401)),
     max_pw |-> OneField("max_power", UInt16(600), UInt16(700), String("-")),
     avg_cad |-> OneField("avg_cadence", UInt8(80), UInt8(90), Float32(170)),
     max_cad |-> OneField("max_cadence", UInt8(110), UInt8(120), Byte(1)),
     avg_spd |-> <<Off("session", "avg_speed", Float64(6)),
                   Off("session", "avg_speed", Float64(9)),
                   Off("session", "avg_speed", String("fast")),
                   Off("session", "enhanced_avg_speed", Float64(10))>>,
     max_spd |-> <<Off("session", "max_speed", Float64(20)),
                   Off("session", "max_speed", UInt16(12)),
                   Off("session", "max_speed", String("fast")),
                   Off("session", "enhanced_max_speed", Float32(25))>>,
     ascent |-> <<Off("session", "total_ascent", UInt16(120)),
                  Off("session", "total_ascent", UInt16(80)),
                  Off("session", "total_ascent", String("up")),
                  Off("record", "altitude", Float64(200)),
                  Off("record", "altitude", Float64(206)),
                  Off("record", "altitude", Float64(191))>>,
     descent |-> <<Off("session", "total_descent", UInt16(100)),
                   Off("session", "total_descent", UInt16(60)),
                   Off("session", "total_descent", String("down")),
                   Off("record", "enhanced_altitude", Float64(200)),
                   Off("record", "enhanced_altitude", Float64(204)),
                   Off("record", "enhanced_altitude", Float64(190))>>,
     gps |-> <<Off("record", "position_lat", SInt32(-1073741824)),
               Off("record", "position_lat", SInt32(1073741825)),
               Off("record", "position_lat", String("N")),
               Off("record", "position_long", SInt32(-2147483647 - 1)),
               Off("record", "position_long", Float64(20))>>,
     altitude |-> <<Off2("record", "position_lat", SInt32(536870912),
                         "position_long", SInt32(119304647)),
                    Off("record", "altitude", Float64(200)),
                    Off("record", "altitude", String("high")),
                    Off("record", "enhanced_altitude", Float64(300))>>,
     speed |-> <<Off("record", "speed", Float64(6)),
                 Off("record", "speed", String("fast")),
                 Off("record", "enhanced_speed", Float64(8)),
                 Off("record", "distance", Float64(2001))>>,
     sensors |-> <<Off("record", "timestamp", UInt32(1100000001)),
                   Off("record", "timestamp", Timestamp(LocalTime(19800, 3601))),
                   Off("record", "heart_rate", UInt8(150)),
                   Off("record", "heart_rate", Float64(300))>>,
     pedals |-> <<Off("record", "power", UInt16(250)),
                  Off("record", "power", String("w")),
                  Off("record", "cadence", UInt8(90)),
                  Off("record", "cadence", Float32(180))>>]

\* A message of a kind this parser does not handle, which every device emits.
EventMessage ==
    [kind |-> "event",
     fields |-> <<[name |-> "timestamp", value |-> UInt32(1100000002)],
                  [name |-> "sport", value |-> UInt8(1)]>>]

FieldNames(off) == {off.fields[k].name : k \in 1..Len(off.fields)}

\* The groups chosen for one message: of one kind, no field name twice.
ValidParts(offs, kind, S) ==
    /\ Cardinality(S) <= MaxParts
    /\ \A k \in S : offs[k].kind = kind
    /\ \A j, k \in S : j /= k => FieldNames(offs[j]) \cap FieldNames(offs[k]) = {}

RECURSIVE JoinParts(_, _, _)
JoinParts(offs, S, k) ==
    IF k > Len(offs) THEN <<>>
    ELSE (IF k \in S THEN offs[k].fields ELSE <<>>) \o JoinParts(offs, S, k + 1)

Messages(device) ==
    LET offs == DeviceOfferings[device]
        kinds == {offs[k].kind : k \in 1..Len(offs)}
    IN  {EventMessage} \cup
        {[kind |-> kind, fields |-> JoinParts(offs, S, 1)] :
            <<kind, S>> \in {ks \in kinds \X SUBSET (1..Len(offs)) :
                                ValidParts(offs, ks[1], ks[2])}}

\* The message sequences fitparser::from_bytes may return.
Streams ==
    UNION {UNION {[1..n -> Messages(device)] : n \in 0..MaxMsgs} :
              device \in DOMAIN DeviceOfferings}

\* The bytes of a file, by what they hold: a FIT container encoding a message
\* sequence, or bytes that are no FIT container.
FitFile(stream) == [fit |-> TRUE, encoded |-> stream]
Garbage == [fit |-> FALSE, encoded |-> <<>>]

\* The files fs::read may return.
Files == {FitFile(stream) : stream \in Streams} \cup {Garbage}

\* fitparser::from_bytes(&file_data): Ok(records) or an error.
from_bytes(bytes) == IF bytes.fit THEN Some(bytes.encoded) ELSE None

\* A path: its directory and its final component, if it has one.
Path(dir, name) == [dir |-> dir, name |-> name]

\* The paths parse_fit_file is called with.
Paths == <<Path("/fit", Some("ride.fit")), Path("/backup", Some("ride.fit")),
           Path("/backup", Some("copy.fit"))>>

\* file_path.file_name().and_then(|n| n.to_str()).unwrap_or("unknown")
file_name(path) == IF IsSome(path.name) THEN Unwrap(path.name) ELSE "unknown"

\* hex::encode(Sha256 of file_data): the digest as a term of the bytes hashed
\* (equal bytes, equal digest; collisions are not modelled).
Sha256Hex(bytes) == [sha256_of |-> bytes]

\* ---------------------------------------------------------- parse_fit_file
VARIABLES
    pc,               \* "read", "decode", "loop", "done", "failed", "panicked",
                      \* "chart", "elevation" for the parts run on their own,
                      \* and "idle" between the calls an upload command makes
    records,          \* the decoded messages (fitparser::from_bytes)
    idx,              \* number of messages the for loop has consumed
    workout_type, start_time, end_time, duration_seconds, distance_meters,
    total_calories, avg_heart_rate, max_heart_rate, avg_power, max_power,
    avg_cadence, max_cadence, avg_speed, max_speed, elevation_gain,
    elevation_loss,
    gps_data, sensor_data, altitudes,
    chart_data,       \* the local chart_data, built after the loop
    result,           \* Result<ParsedFitData, String>: None until the call returns
    file_path,        \* the argument of the call
    file_data,        \* the bytes fs::read returned: None until the file is read
    earlier,          \* the calls of parse_fit_file that returned before this one
    workouts,         \* the rows of the workouts table, in the order of their ids
    uploads,          \* the upload commands invoked: their paths, progress and results
    now,              \* chrono::Local::now(): the instant and the local zone offset
    streak_info       \* what get_streak_info returned: None until it is called

summary == <<workout_type, start_time, end_time, duration_seconds, distance_meters,
             total_calories, avg_heart_rate, max_heart_rate, avg_power, max_power,
             avg_cadence, max_cadence, avg_speed, max_speed, elevation_gain,
             elevation_loss>>
series == <<gps_data, sensor_data, altitudes>>
app == <<workouts, uploads, now, streak_info>>
vars == <<pc, records, idx, summary, series, chart_data, result, file_path, file_data,
          earlier, app>>

Ok(v) == [ok |-> TRUE, value |-> v]
Err(e) == [ok |-> FALSE, error |-> e]

\* The locals of parse_fit_file as declared before the loop.
InitLocals ==
    /\ records = <<>>
    /\ idx = 0
    /\ workout_type = None /\ start_time = None /\ end_time = None
    /\ duration_seconds = None /\ distance_meters = None /\ total_calories = None
    /\ avg_heart_rate = None /\ max_heart_rate = None
    /\ avg_power = None /\ max_power = None
    /\ avg_cadence = None /\ max_cadence = None
    /\ avg_speed = None /\ max_speed = None
    /\ elevation_gain = None /\ elevation_loss = None
    /\ gps_data = <<>> /\ altitudes = <<>>
    /\ chart_data = EmptyChart
    /\ result = None

\* No call of parse_fit_file has read a file or returned yet.
NoCalls == file_path = Paths[1] /\ file_data = None /\ earlier = <<>>

\* The application around the parser: an empty workouts table, no command
\* invoked, the clock at noon UTC of 2024-11-08.
NoCommands ==
    /\ workouts = <<>> /\ uploads = <<>>
    /\ now = [days |-> 20035, secs |-> 43200, offset |-> 0]
    /\ streak_info = None

Init == pc = "read" /\ sensor_data = <<>> /\ InitLocals /\ NoCalls /\ NoCommands

\* fs::read(file_path) succeeds.
ReadFile ==
    /\ pc = "read"
    /\ \E bytes \in Files : file_data' = Some(bytes)
    /\ pc' = "decode"
    /\ UNCHANGED <<records, idx, summary, series, chart_data, result, file_path, earlier, app>>

\* fs::read(file_path).map_err(..)?
ReadFileError ==
    /\ pc = "read"
    /\ pc' = "failed"
    /\ result' = Some(Err("Failed to read file"))
    /\ UNCHANGED <<records, idx, summary, series, chart_data, file_path, file_data, earlier, app>>

\* fitparser::from_bytes(&file_data) returns the messages.
Decode ==
    /\ pc = "decode"
    /\ IsSome(from_bytes(Unwrap(file_data)))
    /\ records' = Unwrap(from_bytes(Unwrap(file_data)))
    /\ pc' = "loop"
    /\ UNCHANGED <<idx, summary, series, chart_data, result, file_path, file_data, earlier, app>>

\* fitparser::from_bytes(&file_data).map_err(..)?
DecodeError ==
    /\ pc = "decode"
    /\ IsNone(from_bytes(Unwrap(file_data)))
    /\ pc' = "failed"
    /\ result' = Some(Err("Failed to parse FIT file"))
    /\ UNCHANGED <<records, idx, summary, series, chart_data, file_path, file_data, earlier, app>>

\* The message the loop is at.
AtKind(kind) == pc = "loop" /\ idx < Len(records) /\ records[idx + 1].kind = kind
record == records[idx + 1]

\* A panic unwinds out of parse_fit_file: nothing is returned.
Abort ==
    /\ pc' = "panicked"
    /\ UNCHANGED <<records, idx, summary, series, chart_data, result, file_path, file_data, earlier, app>>

ProcessSport ==
    /\ AtKind("sport")
    /\ workout_type' = SetIfSome(workout_type, FieldSport(record, "sport"))
    /\ idx' = idx + 1
    /\ UNCHANGED <<pc, records, start_time, end_time, duration_seconds,
                   distance_meters, total_calories, avg_heart_rate, max_heart_rate,
                   avg_power, max_power, avg_cadence, max_cadence, avg_speed,
                   max_speed, elevation_gain, elevation_loss, series, chart_data, result, file_path, file_data, earlier, app>>

ProcessSession ==
    /\ AtKind("session")
    /\ IF UnwrapPanics(record, "start_time") \/ UnwrapPanics(record, "timestamp")
       THEN Abort
       ELSE
        /\ workout_type' = SportIfNone(workout_type, record, "sport")
        /\ start_time' = SessionStartTime(start_time, record)
        /\ end_time' = SetIfSome(end_time, FieldTimestamp(record, "timestamp"))
        /\ duration_seconds' = SessionDuration(duration_seconds, record)
        /\ distance_meters' = SetIfSome(distance_meters, FieldF64(record, "total_distance"))
        /\ total_calories' = AssignI64(total_calories, record, "total_calories")
        /\ avg_heart_rate' = AssignI64(avg_heart_rate, record, "avg_heart_rate")
        /\ max_heart_rate' = AssignI64(max_heart_rate, record, "max_heart_rate")
        /\ avg_power' = AssignI64(avg_power, record, "avg_power")
        /\ max_power' = AssignI64(max_power, record, "max_power")
        /\ avg_cadence' = AssignI64(avg_cadence, record, "avg_cadence")
        /\ max_cadence' = AssignI64(max_cadence, record, "max_cadence")
        /\ avg_speed' = SpeedWithEnhanced(avg_speed, record, "avg_speed", "enhanced_avg_speed")
        /\ max_speed' = SpeedWithEnhanced(max_speed, record, "max_speed", "enhanced_max_speed")
        /\ elevation_gain' = AssignF64(elevation_gain, record, "total_ascent")
        /\ elevation_loss' = AssignF64(elevation_loss, record, "total_descent")
        /\ idx' = idx + 1
        /\ UNCHANGED <<pc, records, series, chart_data, result, file_path, file_data, earlier, app>>

\* The record arm keeping the record's distance as the workout's distance.
ProcessRecordKeepsDistance ==
    /\ AtKind("record")
    /\ IF UnwrapPanics(record, "timestamp")
       THEN Abort
       ELSE
        /\ gps_data' = RecordGps(gps_data, record)
        /\ altitudes' = RecordAltitudes(altitudes, record)
        /\ sensor_data' = RecordSensor(sensor_data, record)
        /\ distance_meters' = SetIfSome(distance_meters, FieldF64(record, "distance"))
        /\ idx' = idx + 1
        /\ UNCHANGED <<pc, records, workout_type, start_time, end_time,
                       duration_seconds, total_calories, avg_heart_rate, max_heart_rate,
                       avg_power, max_power, avg_cadence, max_cadence, avg_speed,
                       max_speed, elevation_gain, elevation_loss, chart_data, result,
                       file_path, file_data, earlier, app>>

ProcessRecord ==
    /\ AtKind("record")
    /\ IF UnwrapPanics(record, "timestamp")
       THEN Abort
       ELSE
        /\ gps_data' = RecordGps(gps_data, record)
        /\ altitudes' = RecordAltitudes(altitudes, record)
        /\ sensor_data' = RecordSensor(sensor_data, record)
        /\ idx' = idx + 1
        /\ UNCHANGED <<pc, records, summary, chart_data, result, file_path, file_data, earlier, app>>

ProcessActivity ==
    /\ AtKind("activity")
    /\ workout_type' = SportIfNone(workout_type, record, "type")
    /\ idx' = idx + 1
    /\ UNCHANGED <<pc, records, start_time, end_time, duration_seconds,
                   distance_meters, total_calories, avg_heart_rate, max_heart_rate,
                   avg_power, max_power, avg_cadence, max_cadence, avg_speed,
                   max_speed, elevation_gain, elevation_loss, series, chart_data, result, file_path, file_data, earlier, app>>

ProcessLap ==
    /\ AtKind("lap")
    /\ IF IsNone(start_time) /\ UnwrapPanics(record, "start_time")
       THEN Abort
       ELSE
        /\ start_time' = LapStartTime(start_time, record)
        /\ idx' = idx + 1
        /\ UNCHANGED <<pc, records, workout_type, end_time, duration_seconds,
                       distance_meters, total_calories, avg_heart_rate, max_heart_rate,
                       avg_power, max_power, avg_cadence, max_cadence, avg_speed,
                       max_speed, elevation_gain, elevation_loss, series, chart_data, result, file_path, file_data, earlier, app>>

HandledKinds == {"sport", "session", "record", "activity", "lap"}

\* The default arm reading the workout type from the message as the sport arm does.
ProcessOtherReadsSport ==
    /\ pc = "loop" /\ idx < Len(records)
    /\ record.kind \notin HandledKinds
    /\ workout_type' = SetIfSome(workout_type, FieldSport(record, "sport"))
    /\ idx' = idx + 1
    /\ UNCHANGED <<pc, records, start_time, end_time, duration_seconds,
                   distance_meters, total_calories, avg_heart_rate, max_heart_rate,
                   avg_power, max_power, avg_cadence, max_cadence, avg_speed,
                   max_speed, elevation_gain, elevation_loss, series, chart_data, result, file_path, file_data, earlier, app>>

\* _ => {}
ProcessOther ==
    /\ pc = "loop" /\ idx < Len(records)
    /\ record.kind \notin HandledKinds
    /\ idx' = idx + 1
    /\ UNCHANGED <<pc, records, summary, series, chart_data, result, file_path, file_data, earlier, app>>

\* FinalElevation reporting zero where nothing could be computed.
FinalElevationOrZero(gain, loss, alts) ==
    LET calc == calculate_elevation_changes(alts)
    IN  <<IF IsSome(gain) THEN gain ELSE IF IsSome(calc[1]) THEN calc[1] ELSE Some(0),
          IF IsSome(loss) THEN loss ELSE IF IsSome(calc[2]) THEN calc[2] ELSE Some(0)>>

\* if elevation_gain.is_none() || elevation_loss.is_none() { .. }
FinalElevation(gain, loss, alts) ==
    IF IsNone(gain) \/ IsNone(loss)
    THEN LET calc == calculate_elevation_changes(alts)
         IN  <<IF IsNone(gain) THEN calc[1] ELSE gain,
               IF IsNone(loss) THEN calc[2] ELSE loss>>
    ELSE <<gain, loss>>

\* opt.map(|t| t.to_rfc3339())
MapRfc3339(opt) == IF IsSome(opt) THEN Some(to_rfc3339(Unwrap(opt))) ELSE None

\* The ParsedFitData assembled after the loop (the filename, which is taken
\* from the path alone, is left out).
ParsedFitData ==
    LET elevation == FinalElevation(elevation_gain, elevation_loss, altitudes)
    IN  [file_hash |-> Sha256Hex(Unwrap(file_data)),
         filename |-> file_name(file_path),
         workout_type |-> workout_type,
         start_time |-> MapRfc3339(start_time),
         end_time |-> MapRfc3339(end_time),
         duration_seconds |-> duration_seconds,
         distance_meters |-> distance_meters,
         total_calories |-> total_calories,
         avg_heart_rate |-> avg_heart_rate,
         max_heart_rate |-> max_heart_rate,
         avg_power_watts |-> avg_power,
         max_power_watts |-> max_power,
         avg_cadence |-> avg_cadence,
         max_cadence |-> max_cadence,
         avg_speed_mps |-> avg_speed,
         max_speed_mps |-> max_speed,
         elevation_gain_meters |-> elevation[1],
         elevation_loss_meters |-> elevation[2],
         gps_data |-> gps_data,
         sensor_data |-> sensor_data,
         chart_data |-> build_chart_data(sensor_data)]

\* The code after the loop: derived elevation, chart data, Ok(ParsedFitData).
Finish ==
    /\ pc = "loop" /\ idx = Len(records)
    /\ LET parsed == ParsedFitData
       IN  /\ elevation_gain' = parsed.elevation_gain_meters
           /\ elevation_loss' = parsed.elevation_loss_meters
           /\ chart_data' = parsed.chart_data
           /\ result' = Some(Ok(parsed))
    /\ pc' = "done"
    /\ UNCHANGED <<records, idx, workout_type, start_time, end_time,
                   duration_seconds, distance_meters, total_calories, avg_heart_rate,
                   max_heart_rate, avg_power, max_power, avg_cadence, max_cadence,
                   avg_speed, max_speed, series, file_path, file_data, earlier, app>>

Next ==
    \/ ReadFile
    \/ ReadFileError
    \/ Decode
    \/ DecodeError
    \/ ProcessSport
    \/ ProcessSession
    \/ ProcessRecord
    \/ ProcessActivity
    \/ ProcessLap
    \/ ProcessOther
    \/ Finish

Spec == Init /\ [][Next]_vars

\* ------------------------------------------- build_chart_data on long series
\* Bounds of the sensor series given to build_chart_data on its own.
MaxStride == 2
MaxRem == 2
MaxPat == 2

\* Sample counts around every multiple of max_points up to MaxStride of them.
SampleCounts ==
    {q * max_points + r : q \in 0..MaxStride,
         r \in (0..MaxRem) \cup {max_points - 1 - j : j \in 0..MaxRem}
               \cup {max_points \div 2}}

OptField(pat, f, i, name, value) ==
    \* field number f of sample i is missing from the record (pattern 0: never)
    IF pat > 0 /\ (i + f) % (pat + 1) = 0 THEN <<>>
    ELSE <<[name |-> name, value |-> value]>>

\* The i-th `record` message of a long recording.
SampleRecord(pat, i) ==
    [kind |-> "record",
     fields |-> OptField(pat, 1, i, "timestamp", UInt32(1100000000 + i))
             \o OptField(pat, 2, i, "heart_rate", UInt8(100 + (i % 90)))
             \o OptField(pat, 3, i, "power", UInt16(i))
             \o OptField(pat, 4, i, "cadence", UInt8(60 + (i % 40)))
             \o OptField(pat, 5, i, "speed", Float64(i))
             \o OptField(pat, 6, i, "altitude", Float64(200 + (i % 7)))]

\* The sensor_data the record arm builds from a recording of n such records.
SensorSeries(n, pat) == [i \in 1..n |-> RecordSensorPoint(SampleRecord(pat, i))]

InitChart ==
    /\ pc = "chart"
    /\ \E n \in SampleCounts, pat \in 0..MaxPat : sensor_data = SensorSeries(n, pat)
    /\ InitLocals /\ NoCalls /\ NoCommands

\* let chart_data = build_chart_data(&sensor_data);
BuildChart ==
    /\ pc = "chart"
    /\ chart_data' = build_chart_data(sensor_data)
    /\ pc' = "done"
    /\ UNCHANGED <<records, idx, summary, series, result, file_path, file_data, earlier, app>>

NextChart == BuildChart

SpecChart == InitChart /\ [][NextChart]_vars

\* ------------------------------- calculate_elevation_changes on its own
\* Bound of the altitude sequences given to the elevation calculation.
MaxAlts == 5

\* Sequences of altitudes in halves of a metre: 95, 95.5, 100, 102, 103.
AltitudeSeqs == UNION {[1..n -> {190, 191, 200, 204, 206}] : n \in 0..MaxAlts}

\* After the loop over a stream of record messages that gave these altitudes
\* and whose session messages set neither elevation total.
InitElevation ==
    /\ pc = "elevation"
    /\ altitudes \in AltitudeSeqs
    /\ records = <<>> /\ idx = 0
    /\ workout_type = None /\ start_time = None /\ end_time = None
    /\ duration_seconds = None /\ distance_meters = None /\ total_calories = None
    /\ avg_heart_rate = None /\ max_heart_rate = None
    /\ avg_power = None /\ max_power = None
    /\ avg_cadence = None /\ max_cadence = None
    /\ avg_speed = None /\ max_speed = None
    /\ elevation_gain = None /\ elevation_loss = None
    /\ gps_data = <<>> /\ sensor_data = <<>>
    /\ chart_data = EmptyChart
    /\ result = None
    /\ NoCalls /\ NoCommands

\* if elevation_gain.is_none() || elevation_loss.is_none() { .. }
ResolveElevation ==
    /\ pc = "elevation"
    /\ LET elevation == FinalElevation(elevation_gain, elevation_loss, altitudes)
       IN  elevation_gain' = elevation[1] /\ elevation_loss' = elevation[2]
    /\ pc' = "done"
    /\ UNCHANGED <<records, idx, workout_type, start_time, end_time,
                   duration_seconds, distance_meters, total_calories, avg_heart_rate,
                   max_heart_rate, avg_power, max_power, avg_cadence, max_cadence,
                   avg_speed, max_speed, series, chart_data, result, file_path, file_data, earlier, app>>

NextElevation == ResolveElevation

SpecElevation == InitElevation /\ [][NextElevation]_vars

\* --------------------------------------------- parse_fit_file called again
\* Bound of the number of calls of parse_fit_file in a row.
MaxCalls == 3

\* Two FIT files, of a hike and of a walk.
HikeFile ==
    FitFile(<<EventMessage,
              Off("session", "sport", String("HIKING")),
              Off("record", "heart_rate", UInt8(150))>>)
WalkFile ==
    FitFile(<<Off("sport", "sport", UInt8(2)),
              Off("activity", "type", String("Walking")),
              Off("lap", "start_time", UInt32(1100000060)),
              Off2("record", "position_lat", SInt32(536870912),
                   "position_long", SInt32(119304647))>>)

\* fs::read(file_path) succeeds on one of the listed files.
ReadListedFile ==
    /\ pc = "read"
    \* the files on disk while the calls are made
    /\ \E bytes \in {Garbage, HikeFile, WalkFile} : file_data' = Some(bytes)
    /\ pc' = "decode"
    /\ UNCHANGED <<records, idx, summary, series, chart_data, result, file_path, earlier, app>>

\* The call that has returned, as its caller sees it.
ReturnedCall == [file_path |-> file_path, file_data |-> file_data, result |-> result]

\* A further call whose gps_data, sensor_data and altitudes outlive the call
\* before (buffers kept in process-wide state).
CallAgainKeepsSeries ==
    /\ pc \in {"done", "failed"}
    /\ Len(earlier) + 1 < MaxCalls
    /\ earlier' = Append(earlier, ReturnedCall)
    /\ \E path \in {Paths[k] : k \in DOMAIN Paths} : file_path' = path
    /\ pc' = "read"
    /\ file_data' = None /\ records' = <<>> /\ idx' = 0
    /\ workout_type' = None /\ start_time' = None /\ end_time' = None
    /\ duration_seconds' = None /\ distance_meters' = None /\ total_calories' = None
    /\ avg_heart_rate' = None /\ max_heart_rate' = None
    /\ avg_power' = None /\ max_power' = None
    /\ avg_cadence' = None /\ max_cadence' = None
    /\ avg_speed' = None /\ max_speed' = None
    /\ elevation_gain' = None /\ elevation_loss' = None
    /\ chart_data' = EmptyChart
    /\ result' = None
    /\ UNCHANGED <<series, app>>

\* upload_fit_file is called again (the loop of upload_fit_files, or a new
\* command): parse_fit_file starts over with a path and its own fresh locals.
CallAgain ==
    /\ pc \in {"done", "failed"}
    /\ Len(earlier) + 1 < MaxCalls
    /\ earlier' = Append(earlier, ReturnedCall)
    /\ \E path \in {Paths[k] : k \in DOMAIN Paths} : file_path' = path
    /\ pc' = "read"
    /\ file_data' = None /\ records' = <<>> /\ idx' = 0
    /\ workout_type' = None /\ start_time' = None /\ end_time' = None
    /\ duration_seconds' = None /\ distance_meters' = None /\ total_calories' = None
    /\ avg_heart_rate' = None /\ max_heart_rate' = None
    /\ avg_power' = None /\ max_power' = None
    /\ avg_cadence' = None /\ max_cadence' = None
    /\ avg_speed' = None /\ max_speed' = None
    /\ elevation_gain' = None /\ elevation_loss' = None
    /\ gps_data' = <<>> /\ sensor_data' = <<>> /\ altitudes' = <<>>
    /\ chart_data' = EmptyChart
    /\ result' = None
    /\ UNCHANGED app

InitCalls ==
    /\ pc = "read" /\ sensor_data = <<>> /\ InitLocals
    /\ file_path \in {Paths[k] : k \in DOMAIN Paths}
    /\ file_data = None /\ earlier = <<>>
    /\ NoCommands

NextCalls ==
    \/ ReadListedFile
    \/ ReadFileError
    \/ Decode
    \/ DecodeError
    \/ ProcessSport
    \/ ProcessSession
    \/ ProcessRecord
    \/ ProcessActivity
    \/ ProcessLap
    \/ ProcessOther
    \/ Finish
    \/ CallAgain

SpecCalls == InitCalls /\ [][NextCalls]_vars

\* ------------------------------------------------- sport codes on their own
\* A file of one message carrying a numeric sport code: a sport or session
\* message with the `sport` field, or an activity message with the `type`
\* field, for every value a u8 takes.
SportCodeFiles ==
    {FitFile(<<Off(kind, IF kind = "activity" THEN "type" ELSE "sport", UInt8(n))>>) :
        kind \in {"sport", "session", "activity"}, n \in 0..255}

\* fs::read(file_path) succeeds on one of the sport code files.
ReadSportCodeFile ==
    /\ pc = "read"
    /\ \E bytes \in SportCodeFiles : file_data' = Some(bytes)
    /\ pc' = "decode"
    /\ UNCHANGED <<records, idx, summary, series, chart_data, result, file_path, earlier, app>>

NextSport ==
    \/ ReadSportCodeFile
    \/ Decode
    \/ ProcessSport
    \/ ProcessSession
    \/ ProcessActivity
    \/ Finish

SpecSport == Init /\ [][NextSport]_vars

\* ------------------------------------------------- coordinates on their own
\* Integer values of the position fields, as [hi, lo] words: signed 32-bit
\* values around 0, +/-2^30 and the ends of the range, unsigned 32-bit values
\* from 2^31 up, and 64-bit values outside 32 bits.
CoordinateValues ==
    {[tag |-> "SInt32", v |-> [hi |-> hi, lo |-> lo]] :
        hi \in {-32768, -16385, -16384, 0, 16383, 16384, 32767}, lo \in {0, 1, 65535}}
    \cup {[tag |-> "UInt32", v |-> [hi |-> hi, lo |-> lo]] :
        hi \in {32768, 49151, 49152, 65535}, lo \in {0, 1, 65535}}
    \cup {[tag |-> "SInt64", v |-> [hi |-> hi, lo |-> lo]] :
        hi \in {-81920, 81920, 114688}, lo \in {0, 1}}

\* A file of one record message with both position fields.
CoordinateFiles ==
    {FitFile(<<Off2("record", "position_lat", lat, "position_long", lon)>>) :
        lat \in CoordinateValues, lon \in CoordinateValues}

\* fs::read(file_path) succeeds on one of the coordinate files.
ReadCoordinateFile ==
    /\ pc = "read"
    /\ \E bytes \in CoordinateFiles : file_data' = Some(bytes)
    /\ pc' = "decode"
    /\ UNCHANGED <<records, idx, summary, series, chart_data, result, file_path, earlier, app>>

NextCoordinates ==
    \/ ReadCoordinateFile
    \/ Decode
    \/ ProcessRecord
    \/ Finish

SpecCoordinates == Init /\ [][NextCoordinates]_vars

\* ------------------------------------------------------ upload commands
\* Bound of the number of paths given to upload_fit_files.
MaxBatch == 3

\* A path whose file is no FIT container and a path where no file is.
BrokenPath == Path("/fit", Some("notes.fit"))
MissingPath == Path("/fit", Some("gone.fit"))

\* The paths the upload commands are given.
UploadPaths == {Paths[k] : k \in DOMAIN Paths} \cup {BrokenPath, MissingPath}

\* The file system while the commands run: the bytes at a path, none where
\* path.exists() is false. Two paths hold the same bytes.
Disk(path) ==
    CASE path = Paths[1] -> Some(HikeFile)
      [] path = Paths[2] -> Some(HikeFile)
      [] path = Paths[3] -> Some(WalkFile)
      [] path = BrokenPath -> Some(Garbage)
      [] OTHER -> None

UploadResult(success, message, workout_id, duplicate) ==
    [success |-> success, message |-> message, workout_id |-> workout_id,
     duplicate |-> duplicate]

\* serde_json::to_string(&value): the JSON text as a term of the value.
to_json(value) == [json |-> value]

\* The InsertWorkout upload_fit_file builds from the ParsedFitData.
InsertWorkoutOf(parsed) ==
    [file_hash |-> parsed.file_hash,
     filename |-> parsed.filename,
     name |-> None,
     workout_type |-> parsed.workout_type,
     start_time |-> parsed.start_time,
     end_time |-> parsed.end_time,
     duration_seconds |-> parsed.duration_seconds,
     distance_meters |-> parsed.distance_meters,
     total_calories |-> parsed.total_calories,
     avg_heart_rate |-> parsed.avg_heart_rate,
     max_heart_rate |-> parsed.max_heart_rate,
     avg_power_watts |-> parsed.avg_power_watts,
     max_power_watts |-> parsed.max_power_watts,
     avg_cadence |-> parsed.avg_cadence,
     max_cadence |-> parsed.max_cadence,
     avg_speed_mps |-> parsed.avg_speed_mps,
     max_speed_mps |-> parsed.max_speed_mps,
     elevation_gain_meters |-> parsed.elevation_gain_meters,
     elevation_loss_meters |-> parsed.elevation_loss_meters,
     gps_data |-> Some(to_json(parsed.gps_data)),
     sensor_data |-> Some(to_json(parsed.sensor_data)),
     chart_data |-> Some(to_json(parsed.chart_data))]

\* SELECT COUNT(*) FROM workouts WHERE file_hash = ? gives count > 0
workout_exists(table, file_hash) ==
    \E k \in 1..Len(table) : table[k].file_hash = file_hash

\* An upload command as invoked: upload_fit_files with its paths, or
\* upload_fit_file, which is the same with one path. `at` is where the
\* command stands: "path" (before path.exists()), "parse", "exists" (before
\* workout_exists), "insert" (before insert_workout) or "returned".
Invoke(file_paths) ==
    [file_paths |-> file_paths, results |-> <<>>, at |-> "path", parsed |-> None,
     returned |-> None]

\* The path the command is at.
CurrentPath(c) == uploads[c].file_paths[Len(uploads[c].results) + 1]

\* The command is at the head of the loop with a path left.
Pending(c) ==
    /\ uploads[c].at = "path"
    /\ Len(uploads[c].results) < Len(uploads[c].file_paths)

\* upload_fit_file returns Ok(result) at the path.exists() test or after the
\* duplicate check or the insert: results.push(result).
Pushed(c, upload_result) ==
    [uploads EXCEPT ![c].results = Append(@, upload_result),
                    ![c].at = "path", ![c].parsed = None]

\* The variables of parse_fit_file.
parser == <<pc, records, idx, summary, series, chart_data, result, file_path,
            file_data, earlier>>

\* parse_fit_file has returned: its locals are dropped.
ReleaseLocals ==
    /\ pc' = "idle"
    /\ file_data' = None /\ records' = <<>> /\ idx' = 0
    /\ workout_type' = None /\ start_time' = None /\ end_time' = None
    /\ duration_seconds' = None /\ distance_meters' = None /\ total_calories' = None
    /\ avg_heart_rate' = None /\ max_heart_rate' = None
    /\ avg_power' = None /\ max_power' = None
    /\ avg_cadence' = None /\ max_cadence' = None
    /\ avg_speed' = None /\ max_speed' = None
    /\ elevation_gain' = None /\ elevation_loss' = None
    /\ gps_data' = <<>> /\ sensor_data' = <<>> /\ altitudes' = <<>>
    /\ chart_data' = EmptyChart
    /\ result' = None
    /\ UNCHANGED <<file_path, earlier>>

\* A missing path ending the whole command with an error.
UploadFileNotFoundAborts ==
    \E c \in DOMAIN uploads :
        /\ Pending(c)
        /\ IsNone(Disk(CurrentPath(c)))
        /\ uploads' = [uploads EXCEPT ![c].at = "returned",
                                      ![c].returned = Some(Err("File not found"))]
        /\ UNCHANGED <<parser, workouts, now, streak_info>>

\* if !path.exists() { return Ok(UploadResult { success: false, .. }) }
UploadFileNotFound ==
    \E c \in DOMAIN uploads :
        /\ Pending(c)
        /\ IsNone(Disk(CurrentPath(c)))
        /\ uploads' = Pushed(c, UploadResult(FALSE, "File not found", None, FALSE))
        /\ UNCHANGED <<parser, workouts, now, streak_info>>

\* parse_fit_file(&path) is entered. Each call has its own locals; the model
\* keeps one set of them and lets one call at a time use it.
CallParseFitFile ==
    \E c \in DOMAIN uploads :
        /\ Pending(c)
        /\ IsSome(Disk(CurrentPath(c)))
        /\ pc = "idle"
        /\ pc' = "read"
        /\ file_path' = CurrentPath(c)
        /\ uploads' = [uploads EXCEPT ![c].at = "parse"]
        /\ UNCHANGED <<records, idx, summary, series, chart_data, result, file_data,
                       earlier, workouts, now, streak_info>>

\* fs::read(file_path) returns the bytes at the path.
ReadDiskFile ==
    /\ pc = "read"
    /\ IsSome(Disk(file_path))
    /\ file_data' = Disk(file_path)
    /\ pc' = "decode"
    /\ UNCHANGED <<records, idx, summary, series, chart_data, result, file_path, earlier, app>>

\* Err(e) => return Ok(UploadResult { success: false, message: format!(..), .. })
ParseFailed ==
    \E c \in DOMAIN uploads :
        /\ uploads[c].at = "parse"
        /\ pc = "failed"
        /\ uploads' = Pushed(c, UploadResult(FALSE,
                          "Failed to parse FIT file: " \o Unwrap(result).error, None, FALSE))
        /\ ReleaseLocals
        /\ UNCHANGED <<workouts, now, streak_info>>

\* Ok(data) => data
ParseSucceeded ==
    \E c \in DOMAIN uploads :
        /\ uploads[c].at = "parse"
        /\ pc = "done"
        /\ uploads' = [uploads EXCEPT ![c].at = "exists",
                                      ![c].parsed = Some(Unwrap(result).value)]
        /\ ReleaseLocals
        /\ UNCHANGED <<workouts, now, streak_info>>

\* The duplicate check that never finds a row.
CheckDuplicateNever ==
    \E c \in DOMAIN uploads :
        /\ uploads[c].at = "exists"
        /\ uploads' = [uploads EXCEPT ![c].at = "insert"]
        /\ UNCHANGED <<parser, workouts, now, streak_info>>

\* if state.db.workout_exists(&parsed.file_hash)? { return Ok(UploadResult {
\*     success: false, duplicate: true, .. }) }, under the connection lock.
CheckDuplicate ==
    \E c \in DOMAIN uploads :
        /\ uploads[c].at = "exists"
        /\ uploads' =
               IF workout_exists(workouts, Unwrap(uploads[c].parsed).file_hash)
               THEN Pushed(c, UploadResult(FALSE, "This workout has already been uploaded",
                                           None, TRUE))
               ELSE [uploads EXCEPT ![c].at = "insert"]
        /\ UNCHANGED <<parser, workouts, now, streak_info>>

\* state.db.insert_workout(&insert_workout).map_err(|e| e.to_string())?, under
\* the connection lock: the row is added with the next id, or the UNIQUE
\* constraint on file_hash fails and the command returns the error.
InsertWorkout ==
    \E c \in DOMAIN uploads :
        /\ uploads[c].at = "insert"
        /\ LET workout == InsertWorkoutOf(Unwrap(uploads[c].parsed))
               id == Len(workouts) + 1
               \* the row stored: the columns given and the id
               row == [column \in DOMAIN workout \cup {"id"} |->
                          IF column = "id" THEN id ELSE workout[column]]
           IN  IF workout_exists(workouts, workout.file_hash)
               THEN /\ uploads' = [uploads EXCEPT
                           ![c].at = "returned", ![c].parsed = None,
                           ![c].returned = Some(Err("UNIQUE constraint failed: workouts.file_hash"))]
                    /\ UNCHANGED workouts
               ELSE /\ workouts' = Append(workouts, row)
                    /\ uploads' = Pushed(c, UploadResult(TRUE, "Workout uploaded successfully",
                                                         Some(id), FALSE))
        /\ UNCHANGED <<parser, now, streak_info>>

\* Ok(results), after the last path.
ReturnResults ==
    \E c \in DOMAIN uploads :
        /\ uploads[c].at = "path"
        /\ Len(uploads[c].results) = Len(uploads[c].file_paths)
        /\ uploads' = [uploads EXCEPT ![c].at = "returned",
                                      ![c].returned = Some(Ok(uploads[c].results))]
        /\ UNCHANGED <<parser, workouts, now, streak_info>>

\* One upload_fit_files command on an empty table.
InitUploads ==
    /\ pc = "idle" /\ sensor_data = <<>> /\ InitLocals /\ NoCalls
    /\ workouts = <<>>
    /\ \E file_paths \in UNION {[1..n -> UploadPaths] : n \in 0..MaxBatch} :
           uploads = <<Invoke(file_paths)>>
    /\ now = [days |-> 20035, secs |-> 43200, offset |-> 0]
    /\ streak_info = None

NextUploads ==
    \/ UploadFileNotFound
    \/ CallParseFitFile
    \/ ReadDiskFile
    \/ Decode
    \/ DecodeError
    \/ ProcessSport
    \/ ProcessSession
    \/ ProcessRecord
    \/ ProcessActivity
    \/ ProcessLap
    \/ ProcessOther
    \/ Finish
    \/ ParseFailed
    \/ ParseSucceeded
    \/ CheckDuplicate
    \/ InsertWorkout
    \/ ReturnResults

SpecUploads == InitUploads /\ [][NextUploads]_vars

\* Two upload_fit_file commands invoked at once on an empty table, each with
\* its path; their steps interleave wherever the connection lock is free.
InitRace ==
    /\ pc = "idle" /\ sensor_data = <<>> /\ InitLocals /\ NoCalls
    /\ workouts = <<>>
    /\ \E first, second \in UploadPaths : uploads = <<Invoke(<<first>>), Invoke(<<second>>)>>
    /\ now = [days |-> 20035, secs |-> 43200, offset |-> 0]
    /\ streak_info = None

SpecRace == InitRace /\ [][NextUploads]_vars

\* ------------------------------------------------------ get_streak_info
\* Bound of the number of days, up to the day of the clock, that hold workouts.
MaxDays == 4

\* The date of a day counted from 1970-01-01, as "%Y-%m-%d" writes it.
format_ymd(day) ==
    LET z   == day + 719468
        era == z \div 146097
        doe == z % 146097
        yoe == (doe - doe \div 1460 + doe \div 36524 - doe \div 146096) \div 365
        doy == doe - (365 * yoe + yoe \div 4 - yoe \div 100)
        mp  == (5 * doy + 2) \div 153
        d   == doy - (153 * mp + 2) \div 5 + 1
        m   == IF mp < 10 THEN mp + 3 ELSE mp - 9
        y   == yoe + era * 400 + (IF m <= 2 THEN 1 ELSE 0)
    IN  Pad4(y) \o "-" \o Pad2(m) \o "-" \o Pad2(d)

\* chrono::Local::now().date_naive(): the day of the clock in the local zone.
date_naive(dt) == dt.days + ((dt.secs + dt.offset) \div 86400)

\* The UTC days that hold workouts: the last MaxDays days up to the clock's.
WorkoutDays == (20035 - MaxDays + 1)..20035

\* The row upload_fit_file stored for a workout that started at the instant
\* (the columns get_streak_info reads, the id and the key); a workout without
\* start time if the instant is none.
StoredRow(id, instant) ==
    [id |-> id,
     file_hash |-> Sha256Hex(FitFile(
         IF IsSome(instant)
         THEN <<Off("session", "start_time", Timestamp(Unwrap(instant)))>>
         ELSE <<Off("session", "avg_heart_rate", UInt8(id))>>)),
     start_time |-> MapRfc3339(instant)]

\* The rows of one workout on each day of the set, oldest first.
RECURSIVE RowsOfDays(_, _)
RowsOfDays(days, id) ==
    IF days = {} THEN <<>>
    ELSE LET first == CHOOSE d \in days : \A e \in days : d <= e
         IN  <<StoredRow(id, Some([days |-> first, secs |-> 1800, offset |-> 0]))>>
             \o RowsOfDays(days \ {first}, id + 1)

\* The tables get_streak_info is called on: one workout on each day of a set
\* of days, and with `more` a workout without start time and a second workout
\* on the last of the days as well.
StreakTable(days, more) ==
    LET rows == RowsOfDays(days, 1)
    IN  IF more /\ days /= {}
        THEN rows \o <<StoredRow(Len(rows) + 1, None),
                       StoredRow(Len(rows) + 2,
                           Some([days |-> CHOOSE d \in days : \A e \in days : e <= d,
                                 secs |-> 3000, offset |-> 0]))>>
        ELSE rows

\* SQLite's date(start_time) of an RFC 3339 text in UTC: the day it names,
\* none (NULL) for a text that names no instant workouts start at.
date(text) ==
    LET \* the instants workouts start at: half past midnight UTC, or 00:50
        instants == {[days |-> day, secs |-> secs, offset |-> 0] :
                        day \in WorkoutDays, secs \in {1800, 3000}}
        named == {t \in instants : to_rfc3339(t) = text}
    IN  IF named = {} THEN None ELSE Some((CHOOSE t \in named : TRUE).days)

\* The days of the rows WHERE start_time IS NOT NULL whose date is not NULL.
DistinctDays(table) ==
    {Unwrap(date(Unwrap(table[k].start_time))) :
        k \in {j \in 1..Len(table) :
                  /\ IsSome(table[j].start_time)
                  /\ IsSome(date(Unwrap(table[j].start_time)))}}

\* SELECT DISTINCT date(start_time) .. ORDER BY workout_date DESC: the dates
\* as texts, latest first.
RECURSIVE DatesDescending(_)
DatesDescending(days) ==
    IF days = {} THEN <<>>
    ELSE LET last == CHOOSE d \in days : \A e \in days : e <= d
         IN  <<format_ymd(last)>> \o DatesDescending(days \ {last})

\* chrono::NaiveDate::parse_from_str(date_str, "%Y-%m-%d")
parse_from_str(date_str) ==
    LET named == {d \in (20035 - MaxDays - 2)..(20035 + 2) : format_ymd(d) = date_str}
    IN  IF named = {} THEN None ELSE Some(CHOOSE d \in named : TRUE)

\* for date_str in &dates { if let Ok(date) = .. { if date == expected_date
\*     { current_streak += 1; expected_date -= 1 day } else if date <
\*     expected_date { break } } }
RECURSIVE StreakLoop(_, _, _, _)
StreakLoop(dates, k, expected_date, current_streak) ==
    IF k > Len(dates) THEN current_streak
    ELSE LET parsed == parse_from_str(dates[k])
         IN  IF IsNone(parsed) THEN StreakLoop(dates, k + 1, expected_date, current_streak)
             ELSE IF Unwrap(parsed) = expected_date
             THEN StreakLoop(dates, k + 1, expected_date - 1, current_streak + 1)
             ELSE IF Unwrap(parsed) < expected_date THEN current_streak
             ELSE StreakLoop(dates, k + 1, expected_date, current_streak)

\* get_streak_info: the current streak, entered only if the latest date is
\* today or yesterday, and the active days: SELECT COUNT(DISTINCT
\* date(start_time)) FROM workouts WHERE start_time >= date('now',
\* '-365 days'), 'now' being UTC.
GetStreakInfo ==
    /\ IsNone(streak_info)
    /\ LET dates == DatesDescending(DistinctDays(workouts))
           today == format_ymd(date_naive(now))
           yesterday == format_ymd(date_naive(now) - 1)
           current_streak ==
               IF dates /= <<>> /\ (dates[1] = today \/ dates[1] = yesterday)
               THEN StreakLoop(dates, 1,
                        IF dates[1] = today THEN date_naive(now)
                        ELSE date_naive(now) - 1, 0)
               ELSE 0
           active_days ==
               Cardinality({d \in DistinctDays(workouts) : d >= now.days - 365})
       IN  streak_info' = Some([current_streak |-> current_streak,
                                active_days |-> active_days])
    /\ UNCHANGED <<parser, workouts, uploads, now>>

InitStreak ==
    /\ pc = "idle" /\ sensor_data = <<>> /\ InitLocals /\ NoCalls
    /\ uploads = <<>>
    /\ \E days \in SUBSET WorkoutDays, more \in BOOLEAN : workouts = StreakTable(days, more)
    \* the clock: 2024-11-08 at 01:00, 12:00 or 23:30 UTC, in a zone eight
    \* hours behind UTC, at UTC, or two hours ahead
    /\ now \in {[days |-> 20035, secs |-> secs, offset |-> offset] :
                   secs \in {3600, 43200, 84600}, offset \in {-28800, 0, 7200}}
    /\ streak_info = None

NextStreak == GetStreakInfo

SpecStreak == InitStreak /\ [][NextStreak]_vars

\* ================================================================ claims
ChartArrays(chart) ==
    <<chart.timestamps, chart.heart_rate, chart.power, chart.cadence, chart.speed,
      chart.altitude>>

\* The six values of a sensor sample that the chart shows, the timestamp as
\* the optional value it is.
SampleValues(point) ==
    <<point.timestamp, point.heart_rate, point.power, point.cadence, point.speed,
      point.altitude>>

\* The k-th entry of the six chart arrays, its timestamp read as present.
ChartEntry(chart, k) ==
    <<Some(chart.timestamps[k]), chart.heart_rate[k], chart.power[k],
      chart.cadence[k], chart.speed[k], chart.altitude[k]>>

\* The same entry, an empty timestamp text read as an absent timestamp.
ChartEntryBlankAbsent(chart, k) ==
    <<IF chart.timestamps[k] = "" THEN None ELSE Some(chart.timestamps[k]),
      chart.heart_rate[k], chart.power[k], chart.cadence[k], chart.speed[k],
      chart.altitude[k]>>

\* build_chart_data has run on sensor_data.
ChartBuilt == pc = "done"

\* C1 (as claimed): whatever the number of sensor samples, each of the six
\* chart arrays built by build_chart_data has at most 1000 entries.
C1_ChartAtMostMaxPoints ==
    ChartBuilt => \A a \in 1..6 : Len(ChartArrays(chart_data)[a]) <= 1000

\* C2: for more than 1000 sensor samples the stride is floor(N / 1000) and the
\* chart holds exactly the samples at the zero-based indices 0, stride,
\* 2 * stride, ... below N, in that order.
C2_StrideKeepsMultiples ==
    (ChartBuilt /\ Len(sensor_data) > 1000) =>
        LET n == Len(sensor_data)
            stride == n \div 1000
            kept == (n + stride - 1) \div stride
        IN  /\ \A a \in 1..6 : Len(ChartArrays(chart_data)[a]) = kept
            /\ \A k \in 1..kept :
                   ChartEntryBlankAbsent(chart_data, k)
                       = SampleValues(sensor_data[(k - 1) * stride + 1])

\* C2 witness: a chart built from 2500 samples with stride 2.
C2_Witness ==
    /\ ChartBuilt
    /\ Len(sensor_data) = 2500
    /\ Len(chart_data.power) = 1250
    /\ chart_data.power[1250] = sensor_data[2499].power

\* C3 (as claimed): for at most 1000 samples each chart array has N entries
\* and entry i carries the six values of sample i, the timestamp included
\* also when it is absent.
C3_ChartEqualsSeries ==
    (ChartBuilt /\ Len(sensor_data) <= 1000) =>
        /\ \A a \in 1..6 : Len(ChartArrays(chart_data)[a]) = Len(sensor_data)
        /\ \A k \in 1..Len(sensor_data) :
               ChartEntry(chart_data, k) = SampleValues(sensor_data[k])

\* C3 (amended): for at most 1000 samples each chart array has N entries and
\* entry i carries heart rate, power, cadence, speed and altitude of sample i
\* unchanged and its timestamp text, an absent timestamp being the empty text.
C3_ChartEqualsSeriesBlankAbsent ==
    (ChartBuilt /\ Len(sensor_data) <= 1000) =>
        /\ \A a \in 1..6 : Len(ChartArrays(chart_data)[a]) = Len(sensor_data)
        /\ \A k \in 1..Len(sensor_data) :
               /\ ChartEntryBlankAbsent(chart_data, k) = SampleValues(sensor_data[k])
               /\ IsNone(sensor_data[k].timestamp) => chart_data.timestamps[k] = ""

\* C3 witness: a chart of exactly 1000 samples, one of them without timestamp
\* and one without altitude.
C3_Witness ==
    /\ ChartBuilt
    /\ Len(sensor_data) = 1000
    /\ Len(chart_data.timestamps) = 1000
    /\ \E k \in 1..1000 : IsNone(sensor_data[k].timestamp) /\ chart_data.timestamps[k] = ""
    /\ \E k \in 1..1000 : IsNone(sensor_data[k].altitude) /\ IsSome(sensor_data[k].speed)

\* C4: in every ParsedFitData returned the six chart arrays have one length.
C4_ChartArraysSameLength ==
    (pc = "done" /\ IsSome(result)) =>
        LET chart == Unwrap(result).value.chart_data
        IN  \A a, b \in 1..6 : Len(ChartArrays(chart)[a]) = Len(ChartArrays(chart)[b])

\* C4 witness: a workout returned with three sensor samples, one of them
\* without a timestamp and one without a heart rate.
C4_Witness ==
    /\ pc = "done" /\ IsSome(result)
    /\ Len(Unwrap(result).value.chart_data.heart_rate) = 3
    /\ \E k \in 1..3 : IsNone(sensor_data[k].timestamp)
    /\ \E k \in 1..3 : IsSome(sensor_data[k].timestamp) /\ IsNone(sensor_data[k].heart_rate)

\* ------------------------------------------------------------ C5 .. C10
\* |deg| <= bound for a fixed-point degree value, bound whole degrees.
WithinDegrees(deg, bound) ==
    /\ deg.i >= -(bound * 16384)
    /\ deg.i + (IF deg.f > 0 THEN 1 ELSE 0) <= bound * 16384

\* The message has only one coordinate, or a converted coordinate out of range.
Unlocatable(msg) ==
    LET lat == RecordCoordinate(msg, "position_lat")
        lon == RecordCoordinate(msg, "position_long")
    IN  \/ IsNone(lat) \/ IsNone(lon)
        \/ ~WithinDegrees(Unwrap(lat), 90)
        \/ ~WithinDegrees(Unwrap(lon), 180)

\* The loop consumes one message of the kind.
Consumes(kind) == AtKind(kind) /\ idx' = idx + 1

\* C5: at every point of the pass every GpsSample in gps_data has |lat| <= 90
\* and |lon| <= 180, and a record with only one coordinate or with a converted
\* coordinate out of range adds no GpsSample.
C5_GpsWithinRange ==
    /\ [](\A k \in 1..Len(gps_data) :
             /\ WithinDegrees(gps_data[k].lat, 90)
             /\ WithinDegrees(gps_data[k].lon, 180))
    /\ [][(Consumes("record") /\ Unlocatable(record)) => gps_data' = gps_data]_vars

\* C5 witness: three records are parsed, one at exactly -90 / -180 degrees that
\* is kept, one just above 90 degrees and one with a latitude only.
C5_Witness ==
    /\ pc = "done" /\ Len(records) = 3 /\ Len(gps_data) = 1
    /\ gps_data[1].lat = [i |-> -(90 * 16384), f |-> 0]
    /\ gps_data[1].lon = [i |-> -(180 * 16384), f |-> 0]
    /\ \E k \in 1..3 :
           /\ IsSome(RecordCoordinate(records[k], "position_lat"))
           /\ IsSome(RecordCoordinate(records[k], "position_long"))
           /\ ~WithinDegrees(Unwrap(RecordCoordinate(records[k], "position_lat")), 90)
    /\ \E k \in 1..3 :
           /\ IsSome(RecordCoordinate(records[k], "position_lat"))
           /\ ~HasField(records[k], "position_long")

\* The positions of the `record` messages consumed so far, and the j-th of them.
RecordPositions == {k \in 1..idx : records[k].kind = "record"}
NthRecord(j) ==
    CHOOSE p \in RecordPositions : Cardinality({q \in RecordPositions : q <= p}) = j

\* The GpsSample a record message stands for.
GpsSampleOf(msg) ==
    [timestamp |-> RecordTimestamp(msg),
     lat |-> Unwrap(RecordCoordinate(msg, "position_lat")),
     lon |-> Unwrap(RecordCoordinate(msg, "position_long")),
     altitude |-> RecordAltitude(msg)]

\* C6: at every point of the pass sensor_data has exactly one entry per record
\* message consumed, in stream order, and gps_data is an order-preserving
\* subsequence of those records with at most one entry per record, so
\* |gps_data| <= |sensor_data| = number of record messages.
C6_OneSensorSamplePerRecord ==
    (pc \in {"loop", "done"}) =>
        /\ Len(sensor_data) = Cardinality(RecordPositions)
        /\ \A j \in 1..Len(sensor_data) :
               sensor_data[j] = RecordSensorPoint(records[NthRecord(j)])
        /\ Len(gps_data) <= Len(sensor_data)
        /\ \E f \in [1..Len(gps_data) -> RecordPositions] :
               /\ \A j, k \in 1..Len(gps_data) : j < k => f[j] < f[k]
               /\ \A k \in 1..Len(gps_data) :
                      /\ ~Unlocatable(records[f[k]])
                      /\ gps_data[k] = GpsSampleOf(records[f[k]])

\* C6 witness: three records parsed in a row, the middle one without
\* coordinates, the first and the last with different altitudes.
C6_Witness ==
    /\ pc = "done" /\ Len(sensor_data) = 3 /\ Len(gps_data) = 2
    /\ Unlocatable(records[2])
    /\ sensor_data[1].altitude /= sensor_data[3].altitude
    /\ gps_data[1].altitude = sensor_data[1].altitude
    /\ gps_data[2].altitude = sensor_data[3].altitude

\* The workout types the messages of a kind carry in a field.
TypesFrom(kind, name) ==
    {FieldSport(records[k], name) :
        k \in {j \in 1..Len(records) :
                  records[j].kind = kind /\ IsSome(FieldSport(records[j], name))}}

\* C7 (as claimed): the returned workout type comes from a sport message if
\* any sport message carries a decodable sport, otherwise from a session
\* message if any carries one, and from an activity message only when neither
\* supplied one, wherever the messages stand in the stream.
C7_WorkoutTypeByKind ==
    (pc = "done") =>
        IF TypesFrom("sport", "sport") /= {}
        THEN workout_type \in TypesFrom("sport", "sport")
        ELSE IF TypesFrom("session", "sport") /= {}
        THEN workout_type \in TypesFrom("session", "sport")
        ELSE TypesFrom("activity", "type") /= {}
                 => workout_type \in TypesFrom("activity", "type")

\* The coercion the parser applies to a summary field.
Coerce(conv, msg, name) ==
    CASE conv = "i64" -> FieldI64(msg, name)
      [] conv = "f64" -> FieldF64(msg, name)
      [] conv = "timestamp" -> FieldTimestamp(msg, name)
      [] conv = "seconds" -> FieldSeconds(msg, name)
      [] conv = "sport" -> FieldSport(msg, name)

\* The messages of the kind carrying a coercible value of the field.
Carriers(kind, name, conv) ==
    {k \in 1..Len(records) :
        records[k].kind = kind /\ IsSome(Coerce(conv, records[k], name))}

\* When several messages carry a coercible value, final is the first one's.
FirstWins(kind, name, conv, final) ==
    LET S == Carriers(kind, name, conv)
    IN  Cardinality(S) >= 2 =>
            final = Coerce(conv, records[CHOOSE k \in S : \A j \in S : k <= j], name)

\* C8 (as claimed): for every summary field taken from session messages and
\* for the workout type from sport messages, when several messages carry a
\* coercible value the returned value is that of the first such message.
C8_FirstWriteWins ==
    (pc = "done") =>
        /\ FirstWins("sport", "sport", "sport", workout_type)
        /\ FirstWins("session", "start_time", "timestamp", start_time)
        /\ FirstWins("session", "timestamp", "timestamp", end_time)
        /\ FirstWins("session", "total_elapsed_time", "seconds", duration_seconds)
        /\ FirstWins("session", "total_distance", "f64", distance_meters)
        /\ FirstWins("session", "total_calories", "i64", total_calories)
        /\ FirstWins("session", "avg_heart_rate", "i64", avg_heart_rate)
        /\ FirstWins("session", "max_heart_rate", "i64", max_heart_rate)
        /\ FirstWins("session", "avg_power", "i64", avg_power)
        /\ FirstWins("session", "max_power", "i64", max_power)
        /\ FirstWins("session", "avg_cadence", "i64", avg_cadence)
        /\ FirstWins("session", "max_cadence", "i64", max_cadence)
        /\ FirstWins("session", "avg_speed", "f64", avg_speed)
        /\ FirstWins("session", "max_speed", "f64", max_speed)
        /\ FirstWins("session", "total_ascent", "f64", elevation_gain)
        /\ FirstWins("session", "total_descent", "f64", elevation_loss)

\* The message just consumed by the loop is a session message.
AfterSession == pc \in {"loop", "done"} /\ idx > 0 /\ records[idx].kind = "session"

\* The plain field wins whenever the message carries both fields.
PlainWins(msg, plain, enhanced, after) ==
    (HasField(msg, plain) /\ HasField(msg, enhanced)) =>
        /\ after = FieldF64(msg, plain)
        /\ after /= FieldF64(msg, enhanced)

\* C9 (as claimed): after a session message carrying both the plain and the
\* enhanced speed field the speed is the plain field's value, and the
\* enhanced value is not used while the plain field is in the message.
C9_PlainSpeedWins ==
    AfterSession =>
        /\ PlainWins(records[idx], "avg_speed", "enhanced_avg_speed", avg_speed)
        /\ PlainWins(records[idx], "max_speed", "enhanced_max_speed", max_speed)

\* The speed after a session message, from the speed before it: a numeric
\* plain field gives the speed; the enhanced field gives it only when the
\* speed is unset once the plain field was handled, that is when the plain
\* field is present but not numeric, or absent with no speed set before.
PlainThenEnhanced(msg, plain, enhanced, before, after) ==
    LET numeric == IsSome(FieldF64(msg, plain))
        unset == IF HasField(msg, plain) THEN ~numeric ELSE IsNone(before)
    IN  /\ numeric => after = FieldF64(msg, plain)
        /\ (unset /\ HasField(msg, enhanced)) => after = FieldF64(msg, enhanced)
        /\ (unset /\ ~HasField(msg, enhanced)) => IsNone(after)
        /\ (~unset /\ ~HasField(msg, plain)) => after = before

\* C9 (amended): a session message whose plain speed field is numeric sets the
\* speed to the plain value whether or not it carries the enhanced field; the
\* enhanced value is used only when the speed is unset after the plain field
\* was handled (plain field not numeric, or absent and no speed set before).
C9_PlainNumericWins ==
    [][Consumes("session") =>
          /\ PlainThenEnhanced(record, "avg_speed", "enhanced_avg_speed",
                               avg_speed, avg_speed')
          /\ PlainThenEnhanced(record, "max_speed", "enhanced_max_speed",
                               max_speed, max_speed')]_vars

\* C9 witness: a session with numeric plain and enhanced average speed, then a
\* session whose plain average speed is text, which takes the enhanced value.
C9_Witness ==
    /\ AfterSession /\ idx = 2 /\ records[1].kind = "session"
    /\ IsSome(FieldF64(records[1], "avg_speed"))
    /\ HasField(records[1], "enhanced_avg_speed")
    /\ HasField(records[2], "avg_speed")
    /\ IsNone(FieldF64(records[2], "avg_speed"))
    /\ avg_speed = Some(10)
    /\ avg_speed = FieldF64(records[2], "enhanced_avg_speed")

\* A numeric field value in whole seconds (floats are counts of halves).
WholeSeconds(value) == IF value.tag \in FloatTags THEN W(value.v \div 2) ELSE value.v

\* The whole seconds of the numeric values session messages carry in a field.
SecondsFrom(name) ==
    {Some(WholeSeconds(Unwrap(get_field_value(records[k], name)))) :
        k \in {j \in 1..Len(records) :
                  /\ records[j].kind = "session"
                  /\ HasField(records[j], name)
                  /\ Unwrap(get_field_value(records[j], name)).tag
                         \in IntTags \cup FloatTags}}

SessionsWith(name) ==
    {k \in 1..Len(records) : records[k].kind = "session" /\ HasField(records[k], name)}

\* C10: the returned duration is a session's total_elapsed_time when one is
\* present and numeric; when total_elapsed_time is absent and total_timer_time
\* is present and numeric it is total_timer_time in whole seconds (3600.0
\* gives 3600); total_timer_time is never used when total_elapsed_time
\* supplied a value.
C10_DurationElapsedThenTimer ==
    (pc = "done") =>
        /\ SecondsFrom("total_elapsed_time") /= {}
               => duration_seconds \in SecondsFrom("total_elapsed_time")
        /\ (SessionsWith("total_elapsed_time") = {}
                /\ SecondsFrom("total_timer_time") /= {})
               => duration_seconds \in SecondsFrom("total_timer_time")

\* C10 witness: a workout whose sessions carry total_timer_time = 3600.0 and
\* no total_elapsed_time, returned with a duration of 3600 seconds.
C10_Witness ==
    /\ pc = "done"
    /\ SessionsWith("total_elapsed_time") = {}
    /\ \E k \in SessionsWith("total_timer_time") :
           get_field_value(records[k], "total_timer_time") = Some(Float64(7200))
    /\ duration_seconds = Some(W(3600))

\* ------------------------------------------------------------ C11 .. C20
\* The numeric totals the session messages report in a field.
SessionTotals(name) ==
    {FieldF64(records[k], name) : k \in Carriers("session", name, "f64")}

\* A session-reported total is returned; without one, the computed value.
ResolvedFrom(name, final, computed) ==
    IF SessionTotals(name) /= {} THEN final \in SessionTotals(name)
    ELSE final = computed

\* C11 (as claimed): elevation gain and loss are resolved independently; a
\* total reported by a session message (total_ascent / total_descent) is
\* returned unchanged and never replaced by a computed one, and the value
\* computed from the altitudes is used only for the one no session reported.
C11_ElevationResolvedIndependently ==
    (pc = "done") =>
        LET calc == calculate_elevation_changes(altitudes)
        IN  /\ ResolvedFrom("total_ascent", elevation_gain, calc[1])
            /\ ResolvedFrom("total_descent", elevation_loss, calc[2])

\* No session message reports a numeric total_ascent or total_descent.
NoSessionTotals == SessionTotals("total_ascent") \cup SessionTotals("total_descent") = {}

\* The steps between successive altitudes that rise, or fall, by more than 2.0.
Steps(alts) == 1..(Len(alts) - 1)
Rises(alts) == {k \in Steps(alts) : alts[k + 1] - alts[k] > 4}
Falls(alts) == {k \in Steps(alts) : alts[k] - alts[k + 1] > 4}

\* C12: when no session message reports total_ascent / total_descent, fewer
\* than two altitude values give an absent gain and an absent loss (not zero),
\* and two or more altitude values without a qualifying step give a gain and a
\* loss that are present and zero.
C12_AbsentNotZero ==
    (pc = "done" /\ NoSessionTotals) =>
        /\ Len(altitudes) < 2 => (IsNone(elevation_gain) /\ IsNone(elevation_loss))
        /\ (Len(altitudes) >= 2 /\ Rises(altitudes) = {} /\ Falls(altitudes) = {})
               => (elevation_gain = Some(0) /\ elevation_loss = Some(0))

\* C12 witness: a workout with exactly one altitude value and no session
\* totals, returned without gain and without loss.
C12_Witness ==
    /\ pc = "done" /\ IsSome(result) /\ NoSessionTotals
    /\ Len(altitudes) = 1
    /\ IsNone(Unwrap(result).value.elevation_gain_meters)
    /\ IsNone(Unwrap(result).value.elevation_loss_meters)

\* The sum of the absolute differences of the steps in S.
RECURSIVE SumSteps(_, _)
SumSteps(alts, S) ==
    IF S = {} THEN 0
    ELSE LET k == CHOOSE j \in S : TRUE
         IN  Abs(alts[k + 1] - alts[k]) + SumSteps(alts, S \ {k})

ExampleAltitudes == <<200, 206, 200, 190, 191>>

\* C14 (as claimed): for the altitudes 100, 103, 100, 95, 95.5 and no session
\* totals the gain is 3.0 (the step 100 to 103 only) and the loss is 5.0 (the
\* step 100 to 95 only).
C14_ExampleGain3Loss5 ==
    (pc = "done" /\ altitudes = ExampleAltitudes) =>
        (elevation_gain = Some(6) /\ elevation_loss = Some(10))

\* C14 (amended): for the altitudes 100, 103, 100, 95, 95.5 and no session
\* totals the gain is 3.0 (the step 100 to 103 only) and the loss is 8.0 (the
\* steps 103 to 100 and 100 to 95); the step 95 to 95.5 adds to neither.
C14_ExampleGain3Loss8 ==
    (pc = "done" /\ altitudes = ExampleAltitudes) =>
        (elevation_gain = Some(6) /\ elevation_loss = Some(16))

\* C14 witness: the elevation of exactly that sequence has been resolved.
C14_Witness ==
    /\ pc = "done" /\ altitudes = ExampleAltitudes
    /\ Falls(altitudes) = {2, 3} /\ Rises(altitudes) = {1}
    /\ elevation_loss = Some(16)

\* The start times the messages of a kind carry.
StartTimes(kind) ==
    {FieldTimestamp(records[k], "start_time") :
        k \in Carriers(kind, "start_time", "timestamp")}

\* C15: the returned start time is a session's start_time whenever any
\* session message carries a coercible start_time, whether lap messages come
\* before or after it; a lap's start_time decides only if no session set it.
C15_SessionStartTimeOverLap ==
    (pc = "done") =>
        IF StartTimes("session") /= {} THEN start_time \in StartTimes("session")
        ELSE IF StartTimes("lap") /= {} THEN start_time \in StartTimes("lap")
        ELSE IsNone(start_time)

\* C15 witness: a lap with a start time comes first, a session with another
\* start time follows, and the session's start time is returned.
C15_Witness ==
    /\ pc = "done" /\ IsSome(result) /\ Len(records) >= 2
    /\ records[1].kind = "lap" /\ IsSome(FieldTimestamp(records[1], "start_time"))
    /\ records[2].kind = "session" /\ IsSome(FieldTimestamp(records[2], "start_time"))
    /\ start_time = FieldTimestamp(records[2], "start_time")
    /\ start_time /= FieldTimestamp(records[1], "start_time")
    /\ Unwrap(result).value.start_time = Some("2024-11-08T11:33:20+00:00")

\* The two failures parse_fit_file reports.
ParseErrors == {Err("Failed to read file"), Err("Failed to parse FIT file")}

\* C16: parse_fit_file fails only when the file cannot be read or the decoder
\* rejects it, before any message is processed; once the decoder has returned
\* the messages the loop never panics, consumes them one by one without
\* running past the last, and ends by returning a ParsedFitData.
C16_FailsOnlyOnReadOrDecode ==
    /\ pc /= "panicked"
    /\ (pc = "failed") => (records = <<>> /\ IsSome(result) /\ Unwrap(result) \in ParseErrors)
    /\ (pc \in {"read", "decode", "loop"}) => IsNone(result)
    /\ (pc = "loop") => (idx <= Len(records))
    /\ (pc = "done") => (IsSome(result) /\ Unwrap(result).ok)

\* C16 witness: a workout returned from a stream without records whose lap
\* start time is the 32-bit timestamp 4294967295 (given as SInt32 -1).
C16_Witness ==
    /\ pc = "done" /\ IsSome(result) /\ Unwrap(result).ok
    /\ Len(records) > 0 /\ Len(sensor_data) = 0
    /\ get_field_value(records[1], "start_time") = Some(SInt32(-1))
    /\ Unwrap(result).value.start_time = Some("2126-02-06T06:28:15+00:00")

\* The message carries the field with a value the coercion rejects.
NotCoercible(msg, name, conv) == HasField(msg, name) /\ IsNone(Coerce(conv, msg, name))

\* Such a field leaves the summary field as it was before the message.
LeftAsBefore(msg, name, conv, before, after) ==
    NotCoercible(msg, name, conv) => after = before

\* C17 (as claimed): a session field whose value cannot be coerced never
\* aborts the parse and leaves its summary field as it was before the message
\* (for duration and speed: when the message has no fallback field either); in
\* particular it does not erase a value an earlier session message wrote.
C17_UncoercibleLeavesFieldAsBefore ==
    [][Consumes("session") =>
          /\ pc' /= "panicked"
          /\ LeftAsBefore(record, "sport", "sport", workout_type, workout_type')
          /\ LeftAsBefore(record, "start_time", "timestamp", start_time, start_time')
          /\ LeftAsBefore(record, "timestamp", "timestamp", end_time, end_time')
          /\ ~HasField(record, "total_timer_time") =>
                 LeftAsBefore(record, "total_elapsed_time", "seconds",
                              duration_seconds, duration_seconds')
          /\ LeftAsBefore(record, "total_distance", "f64", distance_meters, distance_meters')
          /\ LeftAsBefore(record, "total_calories", "i64", total_calories, total_calories')
          /\ LeftAsBefore(record, "avg_heart_rate", "i64", avg_heart_rate, avg_heart_rate')
          /\ LeftAsBefore(record, "max_heart_rate", "i64", max_heart_rate, max_heart_rate')
          /\ LeftAsBefore(record, "avg_power", "i64", avg_power, avg_power')
          /\ LeftAsBefore(record, "max_power", "i64", max_power, max_power')
          /\ LeftAsBefore(record, "avg_cadence", "i64", avg_cadence, avg_cadence')
          /\ LeftAsBefore(record, "max_cadence", "i64", max_cadence, max_cadence')
          /\ ~HasField(record, "enhanced_avg_speed") =>
                 LeftAsBefore(record, "avg_speed", "f64", avg_speed, avg_speed')
          /\ ~HasField(record, "enhanced_max_speed") =>
                 LeftAsBefore(record, "max_speed", "f64", max_speed, max_speed')
          /\ LeftAsBefore(record, "total_ascent", "f64", elevation_gain, elevation_gain')
          /\ LeftAsBefore(record, "total_descent", "f64", elevation_loss, elevation_loss')]_vars

\* The five message kinds parse_fit_file is said to handle.
FiveKinds == {"sport", "session", "record", "lap", "activity"}

\* The in-progress state before any message.
EmptyProgress ==
    [workout_type |-> None, start_time |-> None, end_time |-> None,
     duration_seconds |-> None, distance_meters |-> None, total_calories |-> None,
     avg_heart_rate |-> None, max_heart_rate |-> None, avg_power |-> None,
     max_power |-> None, avg_cadence |-> None, max_cadence |-> None,
     avg_speed |-> None, max_speed |-> None, elevation_gain |-> None,
     elevation_loss |-> None, gps_data |-> <<>>, sensor_data |-> <<>>,
     altitudes |-> <<>>]

\* The in-progress state after one more message of a handled kind.
AfterMessage(st, msg) ==
    CASE msg.kind = "sport" ->
           [st EXCEPT !.workout_type = SetIfSome(@, FieldSport(msg, "sport"))]
      [] msg.kind = "session" ->
           [st EXCEPT !.workout_type = SportIfNone(@, msg, "sport"),
                      !.start_time = SessionStartTime(@, msg),
                      !.end_time = SetIfSome(@, FieldTimestamp(msg, "timestamp")),
                      !.duration_seconds = SessionDuration(@, msg),
                      !.distance_meters = SetIfSome(@, FieldF64(msg, "total_distance")),
                      !.total_calories = AssignI64(@, msg, "total_calories"),
                      !.avg_heart_rate = AssignI64(@, msg, "avg_heart_rate"),
                      !.max_heart_rate = AssignI64(@, msg, "max_heart_rate"),
                      !.avg_power = AssignI64(@, msg, "avg_power"),
                      !.max_power = AssignI64(@, msg, "max_power"),
                      !.avg_cadence = AssignI64(@, msg, "avg_cadence"),
                      !.max_cadence = AssignI64(@, msg, "max_cadence"),
                      !.avg_speed = SpeedWithEnhanced(@, msg, "avg_speed", "enhanced_avg_speed"),
                      !.max_speed = SpeedWithEnhanced(@, msg, "max_speed", "enhanced_max_speed"),
                      !.elevation_gain = AssignF64(@, msg, "total_ascent"),
                      !.elevation_loss = AssignF64(@, msg, "total_descent")]
      [] msg.kind = "record" ->
           [st EXCEPT !.gps_data = RecordGps(@, msg),
                      !.altitudes = RecordAltitudes(@, msg),
                      !.sensor_data = RecordSensor(@, msg)]
      [] msg.kind = "activity" ->
           [st EXCEPT !.workout_type = SportIfNone(@, msg, "type")]
      [] msg.kind = "lap" ->
           [st EXCEPT !.start_time = LapStartTime(@, msg)]

\* The in-progress state after the messages k.. of a stream of handled kinds.
RECURSIVE ProgressOver(_, _, _)
ProgressOver(stream, k, st) ==
    IF k > Len(stream) THEN st
    ELSE ProgressOver(stream, k + 1, AfterMessage(st, stream[k]))

\* The ParsedFitData assembled from an in-progress state.
AssembledFrom(st, hash, filename) ==
    LET elevation == FinalElevation(st.elevation_gain, st.elevation_loss, st.altitudes)
    IN  [file_hash |-> hash, filename |-> filename,
         workout_type |-> st.workout_type,
         start_time |-> MapRfc3339(st.start_time),
         end_time |-> MapRfc3339(st.end_time),
         duration_seconds |-> st.duration_seconds,
         distance_meters |-> st.distance_meters,
         total_calories |-> st.total_calories,
         avg_heart_rate |-> st.avg_heart_rate,
         max_heart_rate |-> st.max_heart_rate,
         avg_power_watts |-> st.avg_power,
         max_power_watts |-> st.max_power,
         avg_cadence |-> st.avg_cadence,
         max_cadence |-> st.max_cadence,
         avg_speed_mps |-> st.avg_speed,
         max_speed_mps |-> st.max_speed,
         elevation_gain_meters |-> elevation[1],
         elevation_loss_meters |-> elevation[2],
         gps_data |-> st.gps_data,
         sensor_data |-> st.sensor_data,
         chart_data |-> build_chart_data(st.sensor_data)]

\* The stream without its messages of other kinds.
WithoutOtherKinds(stream) == SelectSeq(stream, LAMBDA msg : msg.kind \in FiveKinds)

\* C18: a message whose kind is none of sport, session, record, lap, activity
\* leaves every summary field, gps_data, sensor_data and the altitudes
\* unchanged and the parse goes on; the ParsedFitData returned for a stream
\* is the one of the same stream without such messages, wherever they stand.
C18_OtherKindsSkipped ==
    /\ [][(pc = "loop" /\ idx < Len(records) /\ record.kind \notin FiveKinds) =>
             (pc' = "loop" /\ idx' = idx + 1 /\ UNCHANGED <<summary, series>>)]_vars
    /\ []((pc = "done") =>
             Unwrap(result).value
                 = AssembledFrom(ProgressOver(WithoutOtherKinds(records), 1, EmptyProgress),
                                 Unwrap(result).value.file_hash,
                                 Unwrap(result).value.filename))

\* C18 witness: a workout returned from a stream with a message of another
\* kind, carrying a sport field, between a session and a record.
C18_Witness ==
    /\ pc = "done" /\ IsSome(result) /\ Len(records) = 3
    /\ records[1].kind = "session" /\ records[3].kind = "record"
    /\ records[2].kind \notin FiveKinds /\ HasField(records[2], "sport")
    /\ Len(Unwrap(result).value.sensor_data) = 1
    /\ IsNone(Unwrap(result).value.workout_type)

\* The ParsedFitData without any data.
AllAbsent(hash, filename) ==
    [file_hash |-> hash, filename |-> filename, workout_type |-> None, start_time |-> None, end_time |-> None,
     duration_seconds |-> None, distance_meters |-> None, total_calories |-> None,
     avg_heart_rate |-> None, max_heart_rate |-> None,
     avg_power_watts |-> None, max_power_watts |-> None,
     avg_cadence |-> None, max_cadence |-> None,
     avg_speed_mps |-> None, max_speed_mps |-> None,
     elevation_gain_meters |-> None, elevation_loss_meters |-> None,
     gps_data |-> <<>>, sensor_data |-> <<>>,
     chart_data |-> [timestamps |-> <<>>, heart_rate |-> <<>>, power |-> <<>>,
                     cadence |-> <<>>, speed |-> <<>>, altitude |-> <<>>]]

\* The stream holds no message of a recognized kind.
NothingRecognized == \A k \in 1..Len(records) : records[k].kind \notin FiveKinds

\* C19: a stream with zero messages, or with no message of a recognized kind,
\* is parsed to the end and returns, without error, a ParsedFitData whose
\* optional fields are all absent (elevation gain and loss included) and
\* whose gps_data, sensor_data and six chart arrays are empty.
C19_EmptyStreamAllAbsent ==
    /\ (pc = "loop" /\ NothingRecognized) => ENABLED Next
    /\ (pc \in {"done", "failed", "panicked"} /\ Len(records) > 0 /\ NothingRecognized)
           => pc = "done"
    /\ (pc = "done" /\ NothingRecognized) =>
           result = Some(Ok(AllAbsent(Sha256Hex(FitFile(records)), file_name(file_path))))

\* C19 witness: the parse of a stream with zero messages has returned.
C19_Witness ==
    /\ pc = "done" /\ records = <<>>
    /\ IsSome(result) /\ Unwrap(result).ok
    /\ IsNone(Unwrap(result).value.elevation_gain_meters)
    /\ Len(Unwrap(result).value.chart_data.timestamps) = 0

\* The calls that have returned so far, the current one included once it has.
ReturnedCalls ==
    {earlier[k] : k \in 1..Len(earlier)}
        \cup (IF pc \in {"done", "failed"} THEN {ReturnedCall} ELSE {})

\* Two calls read the same bytes.
SameBytes(a, b) == IsSome(a.file_data) /\ a.file_data = b.file_data

BlankFilename(res) ==
    IF res.ok THEN Ok([res.value EXCEPT !.filename = ""]) ELSE res

\* What a call returns for the bytes it read, from those bytes alone.
ExpectedOf(call) ==
    LET decoded == from_bytes(Unwrap(call.file_data))
    IN  IF IsNone(decoded) THEN Err("Failed to parse FIT file")
        ELSE Ok(AssembledFrom(
                    ProgressOver(WithoutOtherKinds(Unwrap(decoded)), 1, EmptyProgress),
                    Sha256Hex(Unwrap(call.file_data)), file_name(call.file_path)))

ListedSportName(code) ==
    CASE code = 0 -> "generic" [] code = 1 -> "running" [] code = 2 -> "cycling"
      [] code = 3 -> "transition" [] code = 4 -> "fitness_equipment"
      [] code = 5 -> "swimming" [] code = 6 -> "basketball" [] code = 7 -> "soccer"
      [] code = 8 -> "tennis" [] code = 9 -> "american_football"
      [] code = 10 -> "training" [] code = 11 -> "walking"
      [] code = 12 -> "cross_country_skiing" [] code = 13 -> "alpine_skiing"
      [] code = 14 -> "snowboarding" [] code = 15 -> "rowing"
      [] code = 16 -> "mountaineering" [] code = 17 -> "hiking"
      [] code = 18 -> "multisport" [] code = 19 -> "paddling"
      [] code = 20 -> "strength_training"

\* The decimal numeral of a natural number, digit by digit.
DecimalDigit == <<"0", "1", "2", "3", "4", "5", "6", "7", "8", "9">>
RECURSIVE Decimal(_)
Decimal(n) ==
    IF n < 10 THEN DecimalDigit[n + 1]
    ELSE Decimal(n \div 10) \o DecimalDigit[(n % 10) + 1]

\* The workout type a numeric sport code stands for.
SportNameOf(code) ==
    IF code \in 0..20 THEN ListedSportName(code) ELSE "sport_" \o Decimal(code)

\* The message of the stream is consumed and it carries the code in `name`.
CodeRead(name) ==
    /\ pc \in {"loop", "done"} /\ idx = 1
    /\ get_field_value(records[1], name) /= None

DeviceInstant(n) == [days |-> 7304 + (n \div 86400), secs |-> n % 86400, offset |-> 0]

\* The same for an unsigned 32-bit count [hi, lo] (65536 = 128 * 512 and
\* 86400 = 128 * 675).
DeviceInstantU32(w) ==
    LET a == 512 * w.hi + (w.lo \div 128)
    IN  [days |-> 7304 + (a \div 675), secs |-> 128 * (a % 675) + (w.lo % 128), offset |-> 0]

\* What the claim says the timestamp coercion returns for a value.
ClaimedTimestamp(value, got) ==
    /\ value.tag = "Timestamp" =>
           /\ IsSome(got) /\ Unwrap(got).days = value.v.days
           /\ Unwrap(got).secs = value.v.secs
    /\ value.tag \in IntTags => got = Some(DeviceInstant(WVal(value.v)))
    /\ IsNone(got) => value.tag \notin IntTags \cup FloatTags \cup {"Timestamp"}

\* The same with integers taken as device seconds only in the two 32-bit
\* variants, the signed one read as unsigned, and every other variant absent.
ClaimedTimestamp32(value, got) ==
    /\ value.tag = "Timestamp" =>
           /\ IsSome(got) /\ Unwrap(got).days = value.v.days
           /\ Unwrap(got).secs = value.v.secs /\ Unwrap(got).offset = 0
    /\ value.tag \in {"UInt32", "SInt32"} =>
           got = Some(DeviceInstantU32([hi |-> value.v.hi % 65536, lo |-> value.v.lo]))
    /\ value.tag \notin {"Timestamp", "UInt32", "SInt32"} => IsNone(got)

\* The time a field of the first message gave to a local that was unset.
FirstMessageTimes ==
    IF pc \in {"loop", "done"} /\ idx = 1
    THEN LET msg == records[1]
         IN  (IF msg.kind \in {"session", "lap"} /\ HasField(msg, "start_time")
              THEN {<<Unwrap(get_field_value(msg, "start_time")), start_time>>} ELSE {})
             \cup
             (IF msg.kind = "session" /\ HasField(msg, "timestamp")
              THEN {<<Unwrap(get_field_value(msg, "timestamp")), end_time>>} ELSE {})
    ELSE {}

\* C22 as stated: an absolute-time value is returned as the same instant, an
\* integer value of any width or signedness as the instant value + 631065600
\* seconds after the UNIX epoch, and only a value that is neither numeric nor
\* a timestamp gives an absent result.
C22_TimestampFromAnyInteger ==
    \A pair \in FirstMessageTimes : ClaimedTimestamp(pair[1], pair[2])

\* C22 amended: an absolute-time value is returned as the same instant in UTC;
\* a UInt32 value, or an SInt32 value read as unsigned 32 bits, as the instant
\* that many seconds + 631065600 after the UNIX epoch; every other variant
\* (integers of other widths, floats, strings) gives an absent result.
C22_TimestampFrom32BitInteger ==
    \A pair \in FirstMessageTimes : ClaimedTimestamp32(pair[1], pair[2])

\* C22 witness: a session whose start_time is the UInt32 1100000000 has been
\* processed and the start time is 2024-11-08T11:33:20Z (day 20035, 41600 s).
C22_Witness ==
    /\ pc = "loop" /\ idx = 1 /\ records[1].kind = "session"
    /\ get_field_value(records[1], "start_time") = Some(UInt32(1100000000))
    /\ start_time = Some([days |-> 20035, secs |-> 41600, offset |-> 0])

\* The numeric value of a field of the message, in metres or m/s; none if
\* the field is missing or holds no number.
NumberIn(msg, name) ==
    LET found == {k \in 1..Len(msg.fields) : msg.fields[k].name = name}
    IN  IF found = {} THEN None
        ELSE LET value == msg.fields[CHOOSE k \in found : \A j \in found : k <= j].value
             IN  IF value.tag \in FloatTags THEN Some(value.v)
                 ELSE IF value.tag \in IntTags THEN Some(2 * WVal(value.v))
                 ELSE None

\* The altitude sequence after a record message: its altitude appended if
\* the plain field holds a number, or, the plain field missing, the enhanced
\* one does; nothing appended if neither field holds a number.
AltitudeContributed(msg, before, after) ==
    LET plain == NumberIn(msg, "altitude")
        enhanced == NumberIn(msg, "enhanced_altitude")
    IN  /\ IsSome(plain) => after = Append(before, Unwrap(plain))
        /\ (~HasField(msg, "altitude") /\ IsSome(enhanced)) =>
               after = Append(before, Unwrap(enhanced))
        /\ (IsNone(plain) /\ IsNone(enhanced)) => after = before
        /\ after = before \/ (Len(after) = Len(before) + 1 /\ SubSeq(after, 1, Len(before)) = before)

NumberOrEnhanced(msg, plain, enhanced) ==
    IF IsSome(NumberIn(msg, plain)) THEN NumberIn(msg, plain) ELSE NumberIn(msg, enhanced)

\* C25: a record's altitude, in its sensor sample, its GPS sample and the
\* altitude sequence, is the plain `altitude` value when that field yields a
\* number and the `enhanced_altitude` value otherwise, and its speed is
\* `speed` when that yields a number and `enhanced_speed` otherwise: a plain
\* field that is present but not numeric gives way to a numeric enhanced one.
C25_RecordFallsBackWhenNotNumeric ==
    [][Consumes("record") =>
          LET msg == records[idx + 1]
              altitude == NumberOrEnhanced(msg, "altitude", "enhanced_altitude")
              point == sensor_data'[Len(sensor_data')]
          IN  /\ point.altitude = altitude
              /\ point.speed = NumberOrEnhanced(msg, "speed", "enhanced_speed")
              /\ altitudes' = IF IsSome(altitude) THEN Append(altitudes, Unwrap(altitude))
                              ELSE altitudes
              /\ gps_data' /= gps_data => gps_data'[Len(gps_data')].altitude = altitude]_vars

\* An integer [hi, lo] reduced to a signed 32-bit value.
Signed32(w) ==
    LET u == w.hi % 65536
    IN  IF u >= 32768 THEN (u - 65536) * 65536 + w.lo ELSE u * 65536 + w.lo

\* A converted coordinate lies in [-180, 180) degrees.
InHalfOpenCircle(deg) == deg.i >= -(180 * 16384) /\ deg.i < 180 * 16384

\* The record of the stream has been processed.
CoordinatesRead == pc \in {"loop", "done"} /\ idx = 1 /\ Len(records) = 1

\* C29: the integer of a position field is reduced to signed 32 bits before
\* it is scaled by 180 / 2^31, so every converted coordinate lies in
\* [-180, 180): the longitude test rejects no sample, and a record with two
\* integer coordinates is dropped exactly when its latitude, as a signed
\* 32-bit semicircle value, has a magnitude above 2^30.
C29_DroppedOnLatitudeOnly ==
    CoordinatesRead =>
        LET lat == Signed32(Unwrap(get_field_value(records[1], "position_lat")).v)
        IN  /\ InHalfOpenCircle(Unwrap(RecordCoordinate(records[1], "position_lat")))
            /\ InHalfOpenCircle(Unwrap(RecordCoordinate(records[1], "position_long")))
            /\ Len(gps_data) = (IF lat > 1073741824 \/ lat < -1073741824 THEN 0 ELSE 1)
            /\ Len(gps_data) = 1 =>
                   /\ InHalfOpenCircle(gps_data[1].lat) /\ InHalfOpenCircle(gps_data[1].lon)
                   /\ (lat = 1073741824) = (gps_data[1].lat = [i |-> 90 * 16384, f |-> 0])
                   /\ (lat = -1073741824) = (gps_data[1].lat = [i |-> -(90 * 16384), f |-> 0])

\* C29 witness: a record whose latitude is the unsigned 32-bit value
\* 3221225472 (-2^30 as signed 32 bits) and whose longitude is 2147483648
\* (-2^31) has been processed and kept, at -90 and -180 degrees.
C29_Witness ==
    /\ CoordinatesRead /\ pc = "done"
    /\ get_field_value(records[1], "position_lat")
           = Some([tag |-> "UInt32", v |-> [hi |-> 49152, lo |-> 0]])
    /\ get_field_value(records[1], "position_long")
           = Some([tag |-> "UInt32", v |-> [hi |-> 32768, lo |-> 0]])
    /\ Len(gps_data) = 1
    /\ gps_data[1].lat = [i |-> -(90 * 16384), f |-> 0]
    /\ gps_data[1].lon = [i |-> -(180 * 16384), f |-> 0]

\* The file at a path can be parsed: it is there and it is a FIT container.
Parsable(path) == IsSome(Disk(path)) /\ Unwrap(Disk(path)).fit

\* The content hash of the file at a path.
HashAt(path) == Sha256Hex(Unwrap(Disk(path)))

\* The hashes of the parsable files among the first n paths of a list.
HashesAmong(file_paths, n) ==
    {HashAt(file_paths[k]) : k \in {j \in 1..n : Parsable(file_paths[j])}}

\* The hashes stored in the workouts table.
StoredHashes == {workouts[k].file_hash : k \in 1..Len(workouts)}

\* C23: after any sequence of upload_fit_file calls the workouts table holds
\* at most one row per file_hash; uploading a file whose hash is already
\* stored returns success=false, duplicate=true and no workout id and leaves
\* the table as it is; uploading a parsable file not yet stored adds exactly
\* one row and returns its id.
C23_OneRowPerHash ==
    \A c \in DOMAIN uploads :
        LET file_paths == uploads[c].file_paths
            results == uploads[c].results
        IN  /\ \A j, k \in 1..Len(workouts) :
                   workouts[j].file_hash = workouts[k].file_hash => j = k
            /\ StoredHashes = HashesAmong(file_paths, Len(results))
            /\ uploads[c].at = "insert" =>
                   Unwrap(uploads[c].parsed).file_hash \notin StoredHashes
            /\ IsSome(uploads[c].returned) => Unwrap(uploads[c].returned).ok
            /\ \A k \in 1..Len(results) :
                   Parsable(file_paths[k]) =>
                       IF HashAt(file_paths[k]) \in HashesAmong(file_paths, k - 1)
                       THEN /\ ~results[k].success /\ results[k].duplicate
                            /\ results[k].workout_id = None
                       ELSE /\ results[k].success /\ ~results[k].duplicate
                            /\ IsSome(results[k].workout_id)
                            /\ Unwrap(results[k].workout_id) =
                                   Cardinality(HashesAmong(file_paths, k))
                            /\ LET row == workouts[Unwrap(results[k].workout_id)]
                               IN  /\ row.id = Unwrap(results[k].workout_id)
                                   /\ row.file_hash = HashAt(file_paths[k])

\* C23 witness: the hike is uploaded, then the same bytes under another path,
\* then the walk: stored with id 1, refused as a duplicate, stored with id 2.
C23_Witness ==
    /\ Len(uploads) = 1 /\ uploads[1].at = "returned"
    /\ uploads[1].file_paths = <<Paths[1], Paths[2], Paths[3]>>
    /\ Len(workouts) = 2
    /\ uploads[1].results[1].workout_id = Some(1)
    /\ uploads[1].results[2].duplicate
    /\ uploads[1].results[3].workout_id = Some(2)

\* Both commands have returned, and their files hold the same parsable bytes.
BothReturnedOnSameBytes ==
    /\ Len(uploads) = 2
    /\ uploads[1].at = "returned" /\ uploads[2].at = "returned"
    /\ Parsable(uploads[1].file_paths[1]) /\ Parsable(uploads[2].file_paths[1])
    /\ Disk(uploads[1].file_paths[1]) = Disk(uploads[2].file_paths[1])

\* The command returned the result of an insert: success and a workout id.
ReturnedInserted(c) ==
    /\ Unwrap(uploads[c].returned).ok
    /\ LET upload_result == Unwrap(uploads[c].returned).value[1]
       IN  /\ upload_result.success /\ ~upload_result.duplicate
           /\ IsSome(upload_result.workout_id)

\* The command returned a duplicate result, not an error.
ReturnedDuplicate(c) ==
    /\ Unwrap(uploads[c].returned).ok
    /\ LET upload_result == Unwrap(uploads[c].returned).value[1]
       IN  /\ ~upload_result.success /\ upload_result.duplicate
           /\ upload_result.workout_id = None

\* C26: for every interleaving of two upload_fit_file calls on files with
\* identical bytes, exactly one call inserts a row and returns success with a
\* workout id, and the other returns a duplicate result (success=false,
\* duplicate=true), not an error.
C26_OneInsertsOtherDuplicate ==
    BothReturnedOnSameBytes =>
        /\ Len(workouts) = 1
        /\ \/ ReturnedInserted(1) /\ ReturnedDuplicate(2)
           \/ ReturnedInserted(2) /\ ReturnedDuplicate(1)

\* The result upload_fit_file gives for a path that is missing or cannot be
\* parsed.
IsNotFound(upload_result) ==
    upload_result = UploadResult(FALSE, "File not found", None, FALSE)
IsParseFailure(upload_result) ==
    /\ ~upload_result.success /\ ~upload_result.duplicate
    /\ upload_result.workout_id = None
    /\ upload_result.message /= "File not found"

\* C27: upload_fit_files returns exactly one UploadResult per input path, in
\* input order; a path that does not exist, fails to parse or is a duplicate
\* yields a success=false entry and the paths after it are still processed;
\* the rows inserted for earlier paths are reflected in the results returned.
C27_OneResultPerPath ==
    (Len(uploads) = 1) =>
        LET file_paths == uploads[1].file_paths
            results == uploads[1].results
        IN  /\ Len(results) <= Len(file_paths)
            /\ uploads[1].at = "returned" =>
                   /\ uploads[1].returned = Some(Ok(results))
                   /\ Len(results) = Len(file_paths)
                   /\ \A j \in 1..Len(workouts) :
                          \E k \in 1..Len(results) : results[k].workout_id = Some(workouts[j].id)
            /\ \A k \in 1..Len(results) :
                   /\ IsNone(Disk(file_paths[k])) => IsNotFound(results[k])
                   /\ (IsSome(Disk(file_paths[k])) /\ ~Parsable(file_paths[k])) =>
                          IsParseFailure(results[k])
                   /\ Parsable(file_paths[k]) =>
                          \/ /\ ~results[k].success /\ results[k].duplicate
                             /\ \E j \in 1..(k - 1) :
                                    /\ results[j].success
                                    /\ Disk(file_paths[j]) = Disk(file_paths[k])
                          \/ /\ results[k].success
                             /\ workouts[Unwrap(results[k].workout_id)].filename
                                    = file_name(file_paths[k])
                             /\ \A j \in 1..(k - 1) : results[j].success =>
                                    Unwrap(results[j].workout_id) < Unwrap(results[k].workout_id)

\* C27 witness: a missing path, an unparsable file and the hike were given in
\* this order; the command returned three results, the last with the row's id.
C27_Witness ==
    /\ Len(uploads) = 1 /\ uploads[1].at = "returned"
    /\ uploads[1].file_paths = <<MissingPath, BrokenPath, Paths[1]>>
    /\ Len(Unwrap(uploads[1].returned).value) = 3
    /\ IsNotFound(uploads[1].results[1])
    /\ IsParseFailure(uploads[1].results[2])
    /\ uploads[1].results[3].workout_id = Some(1) /\ Len(workouts) = 1

\* The calendar days with at least one stored workout.
WorkoutDates ==
    {d \in WorkoutDays :
        \E k \in 1..Len(workouts), secs \in 0..86399 :
            /\ secs \in {1800, 3000}
            /\ workouts[k].start_time = Some(to_rfc3339([days |-> d, secs |-> secs, offset |-> 0]))}

\* Today, by the clock in its zone.
TodayLocal ==
    LET local == now.secs + now.offset
    IN  IF local >= 86400 THEN now.days + 1 ELSE IF local < 0 THEN now.days - 1 ELSE now.days

\* The length of the run of consecutive days with a workout that ends at a day.
RunEndingAt(last) ==
    CHOOSE n \in 0..(MaxDays + 2) :
        /\ \A i \in 0..(n - 1) : (last - i) \in WorkoutDates
        /\ (last - n) \notin WorkoutDates

\* C28: get_streak_info returns as current_streak the length of the run of
\* consecutive calendar days with at least one workout that ends at today, or
\* at yesterday when today has no workout, for any set of stored workout
\* dates; it returns 0 exactly when neither today nor yesterday has a workout.
C28_StreakEndsTodayOrYesterday ==
    IsSome(streak_info) =>
        LET streak == Unwrap(streak_info).current_streak
        IN  /\ streak = IF TodayLocal \in WorkoutDates THEN RunEndingAt(TodayLocal)
                         ELSE RunEndingAt(TodayLocal - 1)
            /\ (streak = 0) =
                   (TodayLocal \notin WorkoutDates /\ (TodayLocal - 1) \notin WorkoutDates)

====
